---- MODULE Spec2Model ----
(***************************************************************************)
(* State-machine model of the myinstagram application: the route handlers  *)
(* for likes, bookmarks, follows, posts and comments running against the   *)
(* managed database and object storage, and the browser components         *)
(* (PostCard, ProfileHeader, FollowListModal, SearchPage) that call them.  *)
(* Every handler is cut at its awaits: one action per database, storage or *)
(* network round trip, so that concurrent requests interleave as they do   *)
(* on the server.                                                          *)
(***************************************************************************)
EXTENDS Integers, Sequences, FiniteSets, TLC

(***************************************************************************)
(* Bounds of the model.                                                    *)
(***************************************************************************)
\* number of request slots that can be in flight at the same time
MaxReq == 2

ReqIds == 1..MaxReq

\* number of post rows ever created
MaxPosts == 2

\* number of comment rows that requests create
MaxComments == 1

\* .limit(2) of the comment preview of the feed
PreviewLimit == 2

\* the ids the posts table hands out (gen_random_uuid()), in order of creation
PostName == <<"p1", "p2", "p3", "p4">>

PostIds == {PostName[i] : i \in 1..MaxPosts}

\* the ids the comments table hands out, in order of creation
CommentName == <<"c1", "c2", "c3", "c4", "c5", "c6">>

\* the comments that requests create and those a feed starts with: one post
\* with more comments than a preview holds and a comment on another post
NumComments == MaxComments + PreviewLimit + 2

CommentIds == {CommentName[i] : i \in 1..NumComments}

\* the file names generated: `${Date.now()}-${random}`, never the same twice
FileName == <<"f1", "f2", "f3", "f4", "f5">>

MaxFiles == MaxPosts

(***************************************************************************)
(* Identities.  A session carries a Clerk id (or none); the users table    *)
(* maps a Clerk id to the internal user id.                                *)
(***************************************************************************)
None == "none"

UserIds == {"ua", "ub"}

\* Clerk ids of the sessions that can call: two synced users and one
\* signed-in user with no row in the users table yet
ClerkIds == {"clerk_a", "clerk_b", "clerk_x"}

\* rows of the users table: never changed by the handlers modelled here
usersTable == {[id |-> "ua", clerk_id |-> "clerk_a", name |-> <<"A", "b">>],
               [id |-> "ub", clerk_id |-> "clerk_b", name |-> <<"b">>]}

\* supabase.from("users").select("id").eq("clerk_id", clerkUserId).single()
CurrentUser(clerk) ==
  IF \E u \in usersTable : u.clerk_id = clerk
    THEN (CHOOSE u \in usersTable : u.clerk_id = clerk).id
    ELSE None

\* supabase.from("users").select("id").eq("id", following_id).single()
UserExists(id) == \E u \in usersTable : u.id = id

(***************************************************************************)
(* Text: a string is the sequence of its characters.                       *)
(***************************************************************************)
RECURSIVE TrimStart(_)
\* the string without its leading white space
TrimStart(str) ==
  IF str # <<>> /\ Head(str) = " " THEN TrimStart(Tail(str)) ELSE str

RECURSIVE TrimEnd(_)
\* the string without its trailing white space
TrimEnd(str) ==
  IF str # <<>> /\ str[Len(str)] = " "
    THEN TrimEnd(SubSeq(str, 1, Len(str) - 1))
    ELSE str

\* String.prototype.trim
Trim(str) == TrimEnd(TrimStart(str))

\* String.prototype.toLowerCase, on the letters that occur
ToLowerCase(str) ==
  [i \in 1..Len(str) |-> IF str[i] = "A" THEN "a"
                         ELSE IF str[i] = "B" THEN "b" ELSE str[i]]

\* value ILIKE '%' || pattern || '%'
ILike(value, pattern) ==
  \E i \in 0..(Len(value) - Len(pattern)) :
    ToLowerCase(SubSeq(value, i + 1, i + Len(pattern))) = ToLowerCase(pattern)

VARIABLES
  likes,       \* likes table: number of rows per <<post_id, user_id>>
  bookmarks,   \* bookmarks table: number of rows per <<post_id, user_id>>
  follows,     \* follows table: number of rows per <<follower_id, following_id>>
  posts,       \* posts table: the row of each post id
  comments,    \* comments table: the row of each comment id
  storage,     \* the bucket: the set of object paths it holds
  nPosts,      \* number of post ids handed out
  nComments,   \* number of comment ids handed out
  nFiles,      \* number of file names generated
  older,       \* posts table: number of rows older than every row of posts
  reqs,        \* the requests in flight, per slot
  view,        \* the control of the page that the user works
  isLiked, likesCount, isLoading,      \* PostCard: like state
  isBookmarked, isBookmarkLoading,     \* PostCard: bookmark state
  isFollowing, followersCount, headerLoading,   \* ProfileHeader
  isFollowedByViewer,                  \* FollowListModal: flag of the listed user
  query, searchQuery, searchType,      \* SearchPage: input, last search, tab
  userResults, postResults,            \* SearchPage: the result lists
  searchLoading, searchError,          \* SearchPage: isLoading and error
  timers, debounceTimerRef,            \* pending timeouts; the one the ref holds
  sinceInput,                          \* ms since the input last changed
  feedPosts, feedPage, feedLoading,    \* PostFeed: posts, page, isLoading
  feedHasMore, feedError,              \* PostFeed: hasMore and error
  diffInSeconds,                       \* seconds from a row's created_at to now
  relativeTime                         \* the label rendered for that time

postVars == <<posts, comments, storage, nPosts, nComments, nFiles, older>>

dbVars == <<likes, bookmarks, follows, postVars>>

cardVars == <<isLiked, likesCount, isLoading, isBookmarked, isBookmarkLoading>>

headerVars == <<isFollowing, followersCount, headerLoading>>

searchVars == <<query, searchQuery, searchType, userResults, postResults,
                searchLoading, searchError, timers, debounceTimerRef,
                sinceInput>>

feedVars == <<feedPosts, feedPage, feedLoading, feedHasMore, feedError>>

timeVars == <<diffInSeconds, relativeTime>>

uiVars == <<view, cardVars, headerVars, isFollowedByViewer, searchVars,
            feedVars, timeVars, timeVars>>

vars == <<dbVars, reqs, uiVars>>

LikeKeys == PostIds \X UserIds

FollowKeys == UserIds \X UserIds

\* the absent row of the posts table
NoPost == [exists |-> FALSE, user_id |-> None, image_url |-> <<>>,
           caption |-> <<>>]

\* the absent row of the comments table
NoComment == [exists |-> FALSE, post_id |-> None, user_id |-> None]

\* a request without form data
NoForm == [hasImage |-> FALSE, size |-> 0, type |-> None, ext |-> <<>>,
           caption |-> <<>>, hasContent |-> FALSE, lead |-> 0, body |-> 0,
           trail |-> 0, q |-> <<>>, searchType |-> "users",
           hasPage |-> FALSE, page |-> 0, hasLimit |-> FALSE, limit |-> 0]

\* the locals of a handler that outlive an await
NoLoc == [path |-> <<>>, url |-> <<>>, existed |-> FALSE, served |-> FALSE,
          users |-> {}, posts |-> {}, offset |-> 0, limit |-> 0,
          rows |-> <<>>, total |-> 0, hasMore |-> FALSE,
          stats |-> <<>>, authors |-> {}, previews |-> <<>>,
          commenters |-> {}, userLikes |-> {}, userBookmarks |-> {},
          error |-> None]

\* a free request slot
IdleReq == [kind |-> "idle", pc |-> "idle", clerk |-> None, target |-> None,
            user |-> None, status |-> 0, origin |-> "api",
            capFlag |-> FALSE, capCount |-> 0, alerted |-> FALSE,
            form |-> NoForm, loc |-> NoLoc]

\* fetch(url, { method, body }): a request on its way to the route handler
NewReq(kind, clerk, target, origin) ==
  [IdleReq EXCEPT !.kind = kind, !.pc = "sent", !.clerk = clerk,
                  !.target = target, !.origin = origin]

\* NextResponse.json(..., { status })
Respond(r, st) ==
  [reqs EXCEPT ![r] = [@ EXCEPT !.pc = "done", !.status = st, !.user = None,
                                !.form = NoForm, !.loc = NoLoc]]

Goto(r, pc) == [reqs EXCEPT ![r].pc = pc]

At(r, kind, pc) == reqs[r].kind = kind /\ reqs[r].pc = pc

(***************************************************************************)
(* Object storage.  A path and a URL are sequences of the pieces that the  *)
(* code joins with "/" and ".".                                            *)
(***************************************************************************)
\* process.env.NEXT_PUBLIC_STORAGE_BUCKET || "uploads"
storageBucket == "uploads"

\* supabase.storage.from(bucket).getPublicUrl(filePath)
PublicUrl(path) == <<"storage/v1/object/public", storageBucket>> \o path

\* positions where `/${storageBucket}/` occurs in a URL
BucketAt(url) == {i \in 1..(Len(url) - 1) : url[i] = storageBucket}

\* imageUrl.split(`/${storageBucket}/`)[1]: the text between the first and
\* the second occurrence of the bucket name; <<>> when split gives one part
StoragePathOf(url) ==
  IF BucketAt(url) = {} THEN <<>>
  ELSE LET first == CHOOSE i \in BucketAt(url) : \A j \in BucketAt(url) : i <= j
           rest == {j \in BucketAt(url) : j > first}
           last == IF rest = {} THEN Len(url)
                   ELSE (CHOOSE j \in rest : \A k \in rest : j <= k) - 1
       IN SubSeq(url, first + 1, last)

(***************************************************************************)
(* Tables.  Each insert is one statement of the database, atomic with its  *)
(* constraint checks.                                                      *)
(***************************************************************************)
\* REFERENCES public.posts(id): the referenced post row must exist
PostExists(p) == p \in PostIds /\ posts[p].exists

\* a likes table without the constraint: no insert is ever rejected
LikesInsertRejected_NoConstraint(tbl, key) == FALSE

\* likes table: UNIQUE(post_id, user_id); TRUE when the insert is rejected
LikesInsertRejected(tbl, key) == tbl[key] > 0

\* follows table: unique constraint on (follower_id, following_id)
FollowsInsertRejected(tbl, key) == tbl[key] > 0

\* bookmarks table: UNIQUE(post_id, user_id)
BookmarksInsertRejected(tbl, key) == tbl[key] > 0

InsertRow(tbl, key) == [tbl EXCEPT ![key] = @ + 1]

\* a delete without the filter on user_id: every user's row of the post
DeleteRows_EveryUser(tbl, key) ==
  [k \in DOMAIN tbl |-> IF k[1] = key[1] THEN 0 ELSE tbl[k]]

\* .delete().eq(...).eq(...): removes every matching row
DeleteRows(tbl, key) == [tbl EXCEPT ![key] = 0]

(***************************************************************************)
(* The common head of the relation handlers: auth(), the body's target id  *)
(* and the caller's row of the users table.                                *)
(***************************************************************************)
\* the head without the test of the session
LikeHeadStatus_NoSessionTest(q, dbOk) ==
  IF q.target = None THEN 400
  ELSE IF ~dbOk \/ CurrentUser(q.clerk) = None THEN 404
  ELSE 0

\* status of the early return, or 0 when the handler goes on
LikeHeadStatus(q, dbOk) ==
  IF q.clerk = None THEN 401
  ELSE IF q.target = None THEN 400
  ELSE IF ~dbOk \/ CurrentUser(q.clerk) = None THEN 404
  ELSE 0

\* an early return, or the step to the first statement after the head; a
\* request refused for its body is answered with the body at hand, after
\* the head the body is not looked at again
HandlerHead(r, st, pc) ==
  [reqs EXCEPT ![r] =
     IF st = 400 THEN [@ EXCEPT !.pc = "done", !.status = st]
     ELSE IF st # 0
       THEN [@ EXCEPT !.pc = "done", !.status = st, !.form = NoForm]
     ELSE [@ EXCEPT !.pc = pc, !.user = CurrentUser(reqs[r].clerk),
                    !.form = NoForm]]

(***************************************************************************)
(* POST /api/likes                                                         *)
(***************************************************************************)
LikePostStart(r, dbOk) ==
  /\ At(r, "likePost", "sent")
  /\ reqs' = HandlerHead(r, LikeHeadStatus(reqs[r], dbOk), "check")
  /\ UNCHANGED <<dbVars, uiVars>>

\* the duplicate check: select ... maybeSingle()
LikePostCheck(r, dbOk) ==
  /\ At(r, "likePost", "check")
  /\ LET key == <<reqs[r].target, reqs[r].user>> IN
     reqs' = IF ~dbOk THEN Respond(r, 500)
             ELSE IF likes[key] > 0 THEN Respond(r, 409)
             ELSE Goto(r, "insert")
  /\ UNCHANGED <<dbVars, uiVars>>

\* the insert
LikePostInsert(r, dbOk) ==
  /\ At(r, "likePost", "insert")
  /\ LET key == <<reqs[r].target, reqs[r].user>> IN
     IF ~dbOk \/ ~PostExists(reqs[r].target) \/ LikesInsertRejected(likes, key)
       THEN /\ reqs' = Respond(r, 500)
            /\ UNCHANGED likes
       ELSE /\ likes' = InsertRow(likes, key)
            /\ reqs' = Respond(r, 200)
  /\ UNCHANGED <<bookmarks, follows, postVars, uiVars>>

(***************************************************************************)
(* DELETE /api/likes                                                       *)
(***************************************************************************)
LikeDeleteStart(r, dbOk) ==
  /\ At(r, "likeDelete", "sent")
  /\ reqs' = HandlerHead(r, LikeHeadStatus(reqs[r], dbOk), "delete")
  /\ UNCHANGED <<dbVars, uiVars>>

LikeDeleteRows(r, dbOk) ==
  /\ At(r, "likeDelete", "delete")
  /\ LET key == <<reqs[r].target, reqs[r].user>> IN
     IF ~dbOk
       THEN /\ reqs' = Respond(r, 500)
            /\ UNCHANGED likes
       ELSE /\ likes' = DeleteRows(likes, key)
            /\ reqs' = Respond(r, 200)
  /\ UNCHANGED <<bookmarks, follows, postVars, uiVars>>

(***************************************************************************)
(* POST /api/follows                                                       *)
(***************************************************************************)
\* the head without the test currentUser.id === following_id
FollowPostHeadStatus_NoSelfTest(q, dbOk) ==
  IF q.clerk = None THEN 401
  ELSE IF q.target = None THEN 400
  ELSE IF ~dbOk \/ CurrentUser(q.clerk) = None THEN 404
  ELSE IF ~dbOk \/ ~UserExists(q.target) THEN 404
  ELSE 0

\* auth(), body, the caller's row, the self-follow test and the target's
\* row; dbOk tells whether the users table answers the two lookups
FollowPostHeadStatus(q, dbOk) ==
  IF q.clerk = None THEN 401
  ELSE IF q.target = None THEN 400
  ELSE IF ~dbOk \/ CurrentUser(q.clerk) = None THEN 404
  ELSE IF CurrentUser(q.clerk) = q.target THEN 400
  ELSE IF ~dbOk \/ ~UserExists(q.target) THEN 404
  ELSE 0

FollowPostStart(r, dbOk) ==
  /\ At(r, "followPost", "sent")
  /\ reqs' = HandlerHead(r, FollowPostHeadStatus(reqs[r], dbOk), "check")
  /\ UNCHANGED <<dbVars, uiVars>>

FollowPostCheck(r, dbOk) ==
  /\ At(r, "followPost", "check")
  /\ LET key == <<reqs[r].user, reqs[r].target>> IN
     reqs' = IF ~dbOk THEN Respond(r, 500)
             ELSE IF follows[key] > 0 THEN Respond(r, 409)
             ELSE Goto(r, "insert")
  /\ UNCHANGED <<dbVars, uiVars>>

FollowPostInsert(r, dbOk) ==
  /\ At(r, "followPost", "insert")
  /\ LET key == <<reqs[r].user, reqs[r].target>> IN
     IF ~dbOk \/ FollowsInsertRejected(follows, key)
       THEN /\ reqs' = Respond(r, 500)
            /\ UNCHANGED follows
       ELSE /\ follows' = InsertRow(follows, key)
            /\ reqs' = Respond(r, 201)
  /\ UNCHANGED <<likes, bookmarks, postVars, uiVars>>

(***************************************************************************)
(* DELETE /api/follows                                                     *)
(***************************************************************************)
FollowDeleteStart(r, dbOk) ==
  /\ At(r, "followDelete", "sent")
  /\ reqs' = HandlerHead(r, LikeHeadStatus(reqs[r], dbOk), "check")
  /\ UNCHANGED <<dbVars, uiVars>>

\* a lookup that reports a row whether or not one matches
Single_AlwaysFound(n) == TRUE

\* .single(): data and no error only when exactly one of the n rows matches
Single(n) == n = 1

\* the existence check: select ... single(), then checkError || !existingFollow
FollowDeleteCheck(r, dbOk) ==
  /\ At(r, "followDelete", "check")
  /\ LET key == <<reqs[r].user, reqs[r].target>> IN
     reqs' = IF ~dbOk \/ ~Single(follows[key])
               THEN Respond(r, 404)
               ELSE Goto(r, "delete")
  /\ UNCHANGED <<dbVars, uiVars>>

FollowDeleteRows(r, dbOk) ==
  /\ At(r, "followDelete", "delete")
  /\ LET key == <<reqs[r].user, reqs[r].target>> IN
     IF ~dbOk
       THEN /\ reqs' = Respond(r, 500)
            /\ UNCHANGED follows
       ELSE /\ follows' = DeleteRows(follows, key)
            /\ reqs' = Respond(r, 200)
  /\ UNCHANGED <<likes, bookmarks, postVars, uiVars>>

(***************************************************************************)
(* POST /api/bookmarks, the revision that upserts.                         *)
(***************************************************************************)
\* .single() answers an error when no users row matches: 500, before the
\* test of !currentUser
BookmarkUpsertHeadStatus(q, dbOk) ==
  IF q.clerk = None THEN 401
  ELSE IF q.target = None THEN 400
  ELSE IF ~dbOk \/ CurrentUser(q.clerk) = None THEN 500
  ELSE 0

BookmarkUpsertStart(r, dbOk) ==
  /\ At(r, "bookmarkUpsert", "sent")
  /\ reqs' = HandlerHead(r, BookmarkUpsertHeadStatus(reqs[r], dbOk), "upsert")
  /\ UNCHANGED <<dbVars, uiVars>>

\* a plain insert in place of the upsert
UpsertIgnoreDuplicates_PlainInsert(tbl, key) == InsertRow(tbl, key)

\* upsert(row, { onConflict: "post_id,user_id", ignoreDuplicates: true }):
\* INSERT ... ON CONFLICT (post_id, user_id) DO NOTHING
UpsertIgnoreDuplicates(tbl, key) ==
  IF BookmarksInsertRejected(tbl, key) THEN tbl ELSE InsertRow(tbl, key)

\* the upsert and the response; loc.existed is the null bookmark of the
\* response body, loc.served tells that the statement returned no error
BookmarkUpsert(r, dbOk) ==
  /\ At(r, "bookmarkUpsert", "upsert")
  /\ LET key == <<reqs[r].target, reqs[r].user>>
         ok == dbOk /\ PostExists(reqs[r].target) IN
     IF ~ok
       THEN /\ reqs' = Respond(r, 500)
            /\ UNCHANGED bookmarks
       ELSE /\ bookmarks' = UpsertIgnoreDuplicates(bookmarks, key)
            /\ reqs' = [reqs EXCEPT ![r].pc = "done", ![r].status = 200,
                                    ![r].loc.served = TRUE,
                                    ![r].loc.existed = (bookmarks[key] > 0)]
  /\ UNCHANGED <<likes, follows, postVars, uiVars>>

(***************************************************************************)
(* DELETE /api/bookmarks, of the same revision.                            *)
(***************************************************************************)
BookmarkUpsertDeleteStart(r, dbOk) ==
  /\ At(r, "bookmarkUpsertDelete", "sent")
  /\ reqs' = HandlerHead(r, BookmarkUpsertHeadStatus(reqs[r], dbOk), "delete")
  /\ UNCHANGED <<dbVars, uiVars>>

BookmarkUpsertDeleteRows(r, dbOk) ==
  /\ At(r, "bookmarkUpsertDelete", "delete")
  /\ LET key == <<reqs[r].target, reqs[r].user>> IN
     IF ~dbOk
       THEN /\ reqs' = Respond(r, 500)
            /\ UNCHANGED bookmarks
       ELSE /\ bookmarks' = DeleteRows(bookmarks, key)
            /\ reqs' = Respond(r, 200)
  /\ UNCHANGED <<likes, follows, postVars, uiVars>>

(***************************************************************************)
(* POST and DELETE /api/bookmarks, the revision that checks first.         *)
(***************************************************************************)
BookmarkPostStart(r, dbOk) ==
  /\ At(r, "bookmarkPost", "sent")
  /\ reqs' = HandlerHead(r, LikeHeadStatus(reqs[r], dbOk), "check")
  /\ UNCHANGED <<dbVars, uiVars>>

BookmarkPostCheck(r, dbOk) ==
  /\ At(r, "bookmarkPost", "check")
  /\ LET key == <<reqs[r].target, reqs[r].user>> IN
     reqs' = IF ~dbOk THEN Respond(r, 500)
             ELSE IF bookmarks[key] > 0 THEN Respond(r, 409)
             ELSE Goto(r, "insert")
  /\ UNCHANGED <<dbVars, uiVars>>

BookmarkPostInsert(r, dbOk) ==
  /\ At(r, "bookmarkPost", "insert")
  /\ LET key == <<reqs[r].target, reqs[r].user>> IN
     IF \/ ~dbOk
        \/ ~PostExists(reqs[r].target)
        \/ BookmarksInsertRejected(bookmarks, key)
       THEN /\ reqs' = Respond(r, 500)
            /\ UNCHANGED bookmarks
       ELSE /\ bookmarks' = InsertRow(bookmarks, key)
            /\ reqs' = Respond(r, 200)
  /\ UNCHANGED <<likes, follows, postVars, uiVars>>

BookmarkDeleteStart(r, dbOk) ==
  /\ At(r, "bookmarkDelete", "sent")
  /\ reqs' = HandlerHead(r, LikeHeadStatus(reqs[r], dbOk), "delete")
  /\ UNCHANGED <<dbVars, uiVars>>

BookmarkDeleteRows(r, dbOk) ==
  /\ At(r, "bookmarkDelete", "delete")
  /\ LET key == <<reqs[r].target, reqs[r].user>> IN
     IF ~dbOk
       THEN /\ reqs' = Respond(r, 500)
            /\ UNCHANGED bookmarks
       ELSE /\ bookmarks' = DeleteRows(bookmarks, key)
            /\ reqs' = Respond(r, 200)
  /\ UNCHANGED <<likes, follows, postVars, uiVars>>

(***************************************************************************)
(* POST /api/posts                                                         *)
(***************************************************************************)
\* const MAX_FILE_SIZE = 5 * 1024 * 1024
MAX_FILE_SIZE == 5242880

\* caption.length > 2200
MaxCaptionLength == 2200

\* an allow list on which nothing is refused
allowedTypes_Everything ==
  {"image/jpeg", "image/jpg", "image/png", "image/webp", "image/gif",
   "image/bmp"}

allowedTypes == {"image/jpeg", "image/jpg", "image/png", "image/webp",
                 "image/gif"}

\* auth(), the form data's validation and the caller's users row
PostCreateHeadStatus(q, dbOk) ==
  IF q.clerk = None THEN 401
  ELSE IF ~q.form.hasImage THEN 400
  ELSE IF q.form.size > MAX_FILE_SIZE THEN 400
  ELSE IF q.form.type \notin allowedTypes THEN 400
  ELSE IF Len(q.form.caption) > MaxCaptionLength THEN 400
  ELSE IF ~dbOk \/ CurrentUser(q.clerk) = None THEN 404
  ELSE 0

\* `${clerkUserId}/${timestamp}-${randomStr}.${fileExt}`
FilePath(clerk, n, ext) == <<clerk, FileName[n]>> \o ext

\* validation, then the file name is generated; a request refused for its
\* form data is answered with that data at hand, and of an accepted one only
\* the caption is used after the file name is made
PostCreateStart(r, dbOk) ==
  /\ At(r, "postCreate", "sent")
  /\ LET st == PostCreateHeadStatus(reqs[r], dbOk) IN
     IF st # 0
       THEN /\ reqs' = IF st = 400
                         THEN [reqs EXCEPT ![r].pc = "done", ![r].status = st]
                         ELSE Respond(r, st)
            /\ UNCHANGED nFiles
       ELSE /\ nFiles < MaxFiles
            /\ nFiles' = nFiles + 1
            /\ reqs' = [reqs EXCEPT
                 ![r].pc = "upload",
                 ![r].user = CurrentUser(reqs[r].clerk),
                 ![r].form = [NoForm EXCEPT !.caption = reqs[r].form.caption],
                 ![r].loc.path =
                    FilePath(reqs[r].clerk, nFiles + 1, reqs[r].form.ext)]
  /\ UNCHANGED <<likes, bookmarks, follows, posts, comments, storage, nPosts, older,
                 nComments, uiVars>>

\* storage.upload(filePath, imageFile, { upsert: false })
PostCreateUpload(r, stOk) ==
  /\ At(r, "postCreate", "upload")
  /\ IF ~stOk \/ reqs[r].loc.path \in storage
       THEN /\ reqs' = Respond(r, 500)
            /\ UNCHANGED storage
       ELSE /\ storage' = storage \cup {reqs[r].loc.path}
            /\ reqs' = [reqs EXCEPT ![r].pc = "insert",
                                    ![r].loc.url = PublicUrl(reqs[r].loc.path)]
  /\ UNCHANGED <<likes, bookmarks, follows, posts, comments, nPosts, older,
                 nComments, nFiles, uiVars>>

\* the insert of the posts row; on insertError the handler goes on to the
\* removal of the uploaded object
PostCreateInsert(r, dbOk) ==
  /\ At(r, "postCreate", "insert")
  /\ IF ~dbOk
       THEN /\ reqs' = Goto(r, "rollback")
            /\ UNCHANGED <<posts, nPosts>>
       ELSE /\ posts' = [posts EXCEPT ![PostName[nPosts + 1]] =
                           [exists |-> TRUE, user_id |-> reqs[r].user,
                            image_url |-> reqs[r].loc.url,
                            caption |-> Trim(reqs[r].form.caption)]]
            /\ nPosts' = nPosts + 1
            /\ reqs' = Respond(r, 200)
  /\ UNCHANGED <<likes, bookmarks, follows, comments, storage, older, nComments,
                 nFiles, uiVars>>

\* what is left in the bucket by storage.remove([filePath]); the call
\* returns { error } and its result is not looked at
RollbackRemove(objects, path, stOk) ==
  IF stOk THEN objects \ {path} ELSE objects

\* await storage.remove([filePath]), then the 500 response
PostCreateRollback(r, stOk) ==
  /\ At(r, "postCreate", "rollback")
  /\ storage' = RollbackRemove(storage, reqs[r].loc.path, stOk)
  /\ reqs' = Respond(r, 500)
  /\ UNCHANGED <<likes, bookmarks, follows, posts, comments, nPosts, older,
                 nComments, nFiles, uiVars>>

(***************************************************************************)
(* DELETE /api/posts/[postId]                                              *)
(***************************************************************************)
PostDeleteHeadStatus(q, dbOk) ==
  IF q.clerk = None THEN 401
  ELSE IF ~dbOk \/ CurrentUser(q.clerk) = None THEN 404
  ELSE 0

PostDeleteStart(r, dbOk) ==
  /\ At(r, "postDelete", "sent")
  /\ reqs' = HandlerHead(r, PostDeleteHeadStatus(reqs[r], dbOk), "fetch")
  /\ UNCHANGED <<dbVars, uiVars>>

\* an ownership test that lets every caller through
IsPostOwner_Anyone(row, user) == TRUE

\* post.user_id !== currentUser.id is the 403
IsPostOwner(row, user) == row.user_id = user

\* select("id, user_id, image_url").eq("id", postId).single(), the 404 and
\* the ownership test
PostDeleteFetch(r, dbOk) ==
  /\ At(r, "postDelete", "fetch")
  /\ LET p == reqs[r].target IN
     reqs' =
       IF ~dbOk \/ ~PostExists(p) THEN Respond(r, 404)
       ELSE IF ~IsPostOwner(posts[p], reqs[r].user)
         THEN Respond(r, 403)
       ELSE [reqs EXCEPT
               ![r].pc = IF posts[p].image_url # <<>>
                            /\ BucketAt(posts[p].image_url) # {}
                         THEN "remove" ELSE "delete",
               ![r].loc.url = posts[p].image_url,
               ![r].loc.path = StoragePathOf(posts[p].image_url)]
  /\ UNCHANGED <<dbVars, uiVars>>

\* a handler that answers 500 when the removal fails
AfterRemove_FailureAnswers500(r, stOk) ==
  IF stOk THEN Goto(r, "delete") ELSE Respond(r, 500)

\* if (storageError) only logs, and so does the catch around the removal:
\* the handler goes on to the delete of the row either way
AfterRemove(r, stOk) == Goto(r, "delete")

\* storage.remove([filePath]); a failure is logged and the handler goes on
PostDeleteRemove(r, stOk) ==
  /\ At(r, "postDelete", "remove")
  /\ storage' = IF stOk THEN storage \ {reqs[r].loc.path} ELSE storage
  /\ reqs' = AfterRemove(r, stOk)
  /\ UNCHANGED <<likes, bookmarks, follows, posts, comments, nPosts, older,
                 nComments, nFiles, uiVars>>

\* a foreign key without a cascade rule that a delete passes nonetheless
CascadeKeys_RowsStay(tbl, p) == tbl

\* ON DELETE CASCADE: the rows that refer to a deleted post go with it
CascadeKeys(tbl, p) == [k \in DOMAIN tbl |-> IF k[1] = p THEN 0 ELSE tbl[k]]

CascadeComments(tbl, p) ==
  [c \in DOMAIN tbl |->
     IF tbl[c].exists /\ tbl[c].post_id = p THEN NoComment ELSE tbl[c]]

\* from("posts").delete().eq("id", postId)
PostDeleteRow(r, dbOk) ==
  /\ At(r, "postDelete", "delete")
  /\ LET p == reqs[r].target IN
     IF ~dbOk
       THEN /\ reqs' = Respond(r, 500)
            /\ UNCHANGED <<likes, bookmarks, posts, comments>>
       ELSE /\ posts' = [posts EXCEPT ![p] = NoPost]
            /\ comments' = CascadeComments(comments, p)
            /\ likes' = CascadeKeys(likes, p)
            /\ bookmarks' = CascadeKeys(bookmarks, p)
            /\ reqs' = Respond(r, 200)
  /\ UNCHANGED <<follows, storage, nPosts, older, nComments, nFiles, uiVars>>

(***************************************************************************)
(* POST /api/comments.  The content is kept as the lengths of its leading  *)
(* white space, of the text from its first to its last other character,    *)
(* and of its trailing white space.                                        *)
(***************************************************************************)
\* trimmedContent.length > 2200
MaxCommentLength == 2200

\* the length of the content as sent, white space included
TrimmedLength_Untrimmed(form) == form.lead + form.body + form.trail

\* content.trim().length
TrimmedLength(form) == form.body

\* content.length
ContentLength(form) == form.lead + form.body + form.trail

CommentPostHeadStatus(q, dbOk) ==
  IF q.clerk = None THEN 401
  ELSE IF q.target = None THEN 400
  ELSE IF ~q.form.hasContent \/ ContentLength(q.form) = 0 THEN 400
  ELSE IF TrimmedLength(q.form) = 0 THEN 400
  ELSE IF TrimmedLength(q.form) > MaxCommentLength THEN 400
  ELSE IF ~dbOk \/ CurrentUser(q.clerk) = None THEN 404
  ELSE 0

CommentPostStart(r, dbOk) ==
  /\ At(r, "commentPost", "sent")
  /\ reqs' = HandlerHead(r, CommentPostHeadStatus(reqs[r], dbOk), "insert")
  /\ UNCHANGED <<dbVars, uiVars>>

CommentPostInsert(r, dbOk) ==
  /\ At(r, "commentPost", "insert")
  /\ nComments < MaxComments
  /\ IF ~dbOk \/ ~PostExists(reqs[r].target)
       THEN /\ reqs' = Respond(r, 500)
            /\ UNCHANGED <<comments, nComments>>
       ELSE /\ comments' = [comments EXCEPT ![CommentName[nComments + 1]] =
                              [exists |-> TRUE, post_id |-> reqs[r].target,
                               user_id |-> reqs[r].user]]
            /\ nComments' = nComments + 1
            /\ reqs' = Respond(r, 200)
  /\ UNCHANGED <<likes, bookmarks, follows, posts, storage, nPosts, older, nFiles,
                 uiVars>>

(***************************************************************************)
(* DELETE /api/comments                                                    *)
(***************************************************************************)
CommentDeleteStart(r, dbOk) ==
  /\ At(r, "commentDelete", "sent")
  /\ reqs' = HandlerHead(r, LikeHeadStatus(reqs[r], dbOk), "fetch")
  /\ UNCHANGED <<dbVars, uiVars>>

\* comment.user_id !== currentUser.id is the 403
IsCommentAuthor(row, user) == row.user_id = user

CommentDeleteFetch(r, dbOk) ==
  /\ At(r, "commentDelete", "fetch")
  /\ LET c == reqs[r].target IN
     reqs' =
       IF ~dbOk \/ c \notin CommentIds \/ ~comments[c].exists
         THEN Respond(r, 404)
       ELSE IF ~IsCommentAuthor(comments[c], reqs[r].user)
         THEN Respond(r, 403)
       ELSE Goto(r, "delete")
  /\ UNCHANGED <<dbVars, uiVars>>

CommentDeleteRow(r, dbOk) ==
  /\ At(r, "commentDelete", "delete")
  /\ IF ~dbOk
       THEN /\ reqs' = Respond(r, 500)
            /\ UNCHANGED comments
       ELSE /\ comments' = [comments EXCEPT ![reqs[r].target] = NoComment]
            /\ reqs' = Respond(r, 200)
  /\ UNCHANGED <<likes, bookmarks, follows, posts, storage, nPosts, older,
                 nComments, nFiles, uiVars>>

(***************************************************************************)
(* GET /api/posts, the feed.  The query parameters page and limit are      *)
(* integers written in digits, or absent; reqs[r].target is the userId     *)
(* filter.  loc holds the handler's offset and limit and the response:     *)
(* the post ids of the page in rows, and total and hasMore of the          *)
(* pagination object, whose limit is loc.limit.  A 500 carries none of     *)
(* them.                                                                   *)
(***************************************************************************)
\* searchParams.get("limit") || "10"
DefaultLimit == 10

\* Math.min(..., 50)
MaxLimit == 50

\* parseInt(searchParams.get("page") || "1", 10)
PageOf(form) == IF form.hasPage THEN form.page ELSE 1

\* the limit as requested, without Math.min
LimitOf_Unclamped(form) == IF form.hasLimit THEN form.limit ELSE DefaultLimit

\* Math.min(parseInt(searchParams.get("limit") || "10", 10), 50)
LimitOf(form) ==
  LET asked == IF form.hasLimit THEN form.limit ELSE DefaultLimit
  IN IF asked < MaxLimit THEN asked ELSE MaxLimit

\* const offset = (page - 1) * limit
OffsetOf(form) == (PageOf(form) - 1) * LimitOf(form)

\* the post ids from the newest to the oldest
NewestFirst == [i \in 1..MaxPosts |-> PostName[MaxPosts + 1 - i]]

\* from("post_stats").select("*").order("created_at", { ascending: false })
\* with .eq("user_id", userId) when the filter is given
(* The rows of the posts table that are older than every row of posts: *)
(* row i is the i-th oldest, all of them written by OlderAuthor.       *)
OlderName == <<"o1", "o2", "o3", "o4", "o5", "o6",
               "o7", "o8", "o9", "o10", "o11", "o12">>

OlderAuthor == "ua"

OlderRows == [i \in 1..older |-> OlderName[older + 1 - i]]

FeedRows(userId) ==
  SelectSeq(NewestFirst,
            LAMBDA p : posts[p].exists
                       /\ (userId = None \/ posts[p].user_id = userId))
  \o (IF userId \in {None, OlderAuthor} THEN OlderRows ELSE <<>>)

\* .range(from, to): the rows at the positions from..to, counted from 0
Range(rows, from, to) ==
  IF from >= Len(rows) \/ to < from THEN <<>>
  ELSE SubSeq(rows, from + 1, IF to < Len(rows) - 1 THEN to + 1 ELSE Len(rows))

\* PostgREST takes no negative offset and no negative limit
RangeAccepted(from, to) == from >= 0 /\ to >= from - 1

\* an empty page answered with the count of the feed
EmptyFeedResponse_Counted(r) ==
  [reqs EXCEPT ![r].pc = "done", ![r].status = 200,
               ![r].loc.offset = OffsetOf(reqs[r].form),
               ![r].loc.limit = LimitOf(reqs[r].form),
               ![r].loc.total = Len(FeedRows(reqs[r].target))]

\* if (!postsStats || postsStats.length === 0): posts: [], total: 0,
\* hasMore: false
EmptyFeedResponse(r) ==
  [reqs EXCEPT ![r].pc = "done", ![r].status = 200,
               ![r].loc.offset = OffsetOf(reqs[r].form),
               ![r].loc.limit = LimitOf(reqs[r].form)]

\* NextResponse.json({ error, details }, { status: 500 }) of a failed query
FeedError(r, error) ==
  [reqs EXCEPT ![r].pc = "done", ![r].status = 500, ![r].user = None,
               ![r].loc = [NoLoc EXCEPT !.error = error],
               ![r].form = NoForm]

RECURSIVE RowCount(_, _)
\* the number of rows of a table under the keys
RowCount(tbl, keys) ==
  IF keys = {} THEN 0
  ELSE LET k == CHOOSE x \in keys : TRUE
       IN tbl[k] + RowCount(tbl, keys \ {k})

\* likes_count of the post_stats view: the number of like rows of the post
StatsLikesCount(p) == RowCount(likes, {p} \X UserIds)

\* a row of the post_stats view: the author of the post and its counts
PostStats(p) ==
  IF p \in PostIds
    THEN [user_id |-> posts[p].user_id, likes_count |-> StatsLikesCount(p)]
    ELSE [user_id |-> OlderAuthor, likes_count |-> 0]

\* the query of the page and the early returns after it
FeedGetPage(r, dbOk) ==
  /\ At(r, "feedGet", "sent")
  /\ LET from == OffsetOf(reqs[r].form)
         to == from + LimitOf(reqs[r].form) - 1
         rows == Range(FeedRows(reqs[r].target), from, to) IN
     reqs' = IF ~dbOk \/ ~RangeAccepted(from, to)
               THEN FeedError(r, "Failed to fetch posts")
             ELSE IF rows = <<>> THEN EmptyFeedResponse(r)
             ELSE [reqs EXCEPT ![r].pc = "users", ![r].loc.rows = rows,
                               ![r].loc.stats =
                                  [i \in 1..Len(rows) |-> PostStats(rows[i])],
                               ![r].loc.offset = from,
                               ![r].loc.limit = LimitOf(reqs[r].form)]
  /\ UNCHANGED <<dbVars, uiVars>>

\* usersMap.get(post.user_id) is undefined for some post of the page
AuthorMissing(loc) ==
  \E i \in 1..Len(loc.stats) : loc.stats[i].user_id \notin loc.authors

\* the authors of the page's posts: from("users").select(...).in("id", userIds);
\* found are the users whose rows the table holds at this time
FeedGetUsers(r, dbOk, found) ==
  /\ At(r, "feedGet", "users")
  /\ reqs' = IF ~dbOk THEN FeedError(r, "Failed to fetch users")
             ELSE [reqs EXCEPT
                     ![r].pc = "previews",
                     ![r].loc.authors =
                        {reqs[r].loc.stats[i].user_id :
                           i \in 1..Len(reqs[r].loc.stats)} \cap found]
  /\ UNCHANGED <<dbVars, uiVars>>

\* the comment ids from the newest to the oldest
NewestCommentFirst ==
  [i \in 1..NumComments |-> CommentName[NumComments + 1 - i]]

\* the comments of a post, all of them, from the oldest to the newest
CommentsQuery_AllOldestFirst(p) ==
  LET all == SelectSeq([i \in 1..NumComments |-> CommentName[i]],
                       LAMBDA c : comments[c].exists
                                  /\ comments[c].post_id = p)
  IN [i \in 1..Len(all) |->
        [id |-> all[i], post_id |-> comments[all[i]].post_id,
         user_id |-> comments[all[i]].user_id]]

\* from("comments").select(...).eq("post_id", postId)
\*   .order("created_at", { ascending: false }).limit(2)
CommentsQuery(p) ==
  LET all == SelectSeq(NewestCommentFirst,
                       LAMBDA c : comments[c].exists
                                  /\ comments[c].post_id = p)
      n == IF Len(all) < PreviewLimit THEN Len(all) ELSE PreviewLimit
  IN [i \in 1..n |->
        [id |-> all[i], post_id |-> comments[all[i]].post_id,
         user_id |-> comments[all[i]].user_id]]

RECURSIVE Flat(_)
\* commentsByPostArray.flat()
Flat(lists) ==
  IF lists = <<>> THEN <<>> ELSE Head(lists) \o Flat(Tail(lists))

\* every comment of the page under every post
CommentsByPost_Ungrouped(list, p) == list

\* commentsByPost.get(post.post_id) || []
CommentsByPost(list, p) == SelectSeq(list, LAMBDA c : c.post_id = p)

\* the comment queries of Promise.all, one for each post of the page, each
\* reading the comments of its own post only; failed are the posts whose
\* query ends with an error, which gives the empty list.  Without a comment
\* there is no query of the commenters.
FeedGetPreviews(r, failed) ==
  /\ At(r, "feedGet", "previews")
  /\ failed \subseteq PostIds
  /\ LET rows == reqs[r].loc.rows
         list == Flat([i \in 1..Len(rows) |->
                         IF rows[i] \in failed THEN <<>>
                         ELSE CommentsQuery(rows[i])])
     IN reqs' = [reqs EXCEPT
                   ![r].pc = IF list = <<>> THEN "viewer"
                             ELSE "commentUsers",
                   ![r].loc.previews =
                      [i \in 1..Len(rows) |-> CommentsByPost(list, rows[i])]]
  /\ UNCHANGED <<dbVars, uiVars>>

\* the commenters: from("users").select(...).in("id", commentUserIds)
FeedGetCommentUsers(r, dbOk, found) ==
  /\ At(r, "feedGet", "commentUsers")
  /\ reqs' = IF ~dbOk THEN FeedError(r, "Failed to fetch comment users")
             ELSE [reqs EXCEPT
                     ![r].pc = "viewer",
                     ![r].loc.commenters =
                        {c.user_id : c \in
                           UNION {{p[k] : k \in 1..Len(p)} :
                                    p \in {reqs[r].loc.previews[i] :
                                      i \in 1..Len(reqs[r].loc.previews)}}}
                        \cap found]
  /\ UNCHANGED <<dbVars, uiVars>>

\* a post of the page answered though its author was not found
Compose_AuthorOptional(q) ==
  [q EXCEPT !.pc = "count",
            !.loc.previews =
               [i \in 1..Len(q.loc.previews) |->
                  SelectSeq(q.loc.previews[i],
                            LAMBDA c : c.user_id \in q.loc.commenters)],
            !.loc.authors = {}, !.loc.commenters = {}]

\* postsStats.map(...): a post whose author is missing throws, which the catch
\* block answers 500; a comment whose author is missing is filtered out
Compose(q) ==
  IF AuthorMissing(q.loc)
    THEN [q EXCEPT !.pc = "done", !.status = 500, !.user = None,
                   !.loc = [NoLoc EXCEPT !.error = "Internal server error"],
                   !.form = NoForm]
    ELSE [q EXCEPT !.pc = "count",
                   !.loc.previews =
                      [i \in 1..Len(q.loc.previews) |->
                         SelectSeq(q.loc.previews[i],
                                   LAMBDA c : c.user_id \in q.loc.commenters)],
                   !.loc.authors = {}, !.loc.commenters = {}]

\* auth(): without a session the likes and bookmarks are not read
FeedGetViewer(r) ==
  /\ At(r, "feedGet", "viewer")
  /\ reqs' = [reqs EXCEPT ![r] = IF reqs[r].clerk = None THEN Compose(@)
                                 ELSE [@ EXCEPT !.pc = "currentUser"]]
  /\ UNCHANGED <<dbVars, uiVars>>

\* from("users").select("id").eq("clerk_id", clerkUserId).single(); without
\* the row the likes and bookmarks are not read
FeedGetCurrentUser(r, dbOk) ==
  /\ At(r, "feedGet", "currentUser")
  /\ reqs' = [reqs EXCEPT ![r] =
                IF ~dbOk \/ CurrentUser(reqs[r].clerk) = None THEN Compose(@)
                ELSE [@ EXCEPT !.pc = "likes",
                               !.user = CurrentUser(reqs[r].clerk)]]
  /\ UNCHANGED <<dbVars, uiVars>>

\* the viewer's rows of a table for the posts of the page
ViewerRows_OfAnyone(tbl, user, rows) ==
  {rows[i] : i \in {j \in 1..Len(rows) :
                      \E u \in UserIds : tbl[<<rows[j], u>>] > 0}}

\* from(table).select("post_id").eq("user_id", currentUser.id)
\*   .in("post_id", postIds)
ViewerRows(tbl, user, rows) ==
  {rows[i] : i \in {j \in 1..Len(rows) : /\ rows[j] \in PostIds
                                         /\ tbl[<<rows[j], user>>] > 0}}

\* userLikes = likes?.map(...) || []: an error leaves the list empty
FeedGetLikes(r, dbOk) ==
  /\ At(r, "feedGet", "likes")
  /\ reqs' = [reqs EXCEPT
                ![r].pc = "bookmarks",
                ![r].loc.userLikes =
                   IF dbOk THEN ViewerRows(likes, reqs[r].user,
                                           reqs[r].loc.rows)
                   ELSE {}]
  /\ UNCHANGED <<dbVars, uiVars>>

\* userBookmarks = bookmarks?.map(...) || [], and the posts composed
FeedGetBookmarks(r, dbOk) ==
  /\ At(r, "feedGet", "bookmarks")
  /\ reqs' = [reqs EXCEPT ![r] =
                Compose([@ EXCEPT !.loc.userBookmarks =
                           IF dbOk THEN ViewerRows(bookmarks, reqs[r].user,
                                                   reqs[r].loc.rows)
                           ELSE {}])]
  /\ UNCHANGED <<dbVars, uiVars>>

\* more rows than the page's last one, the last one counted with them
HasMore_Inclusive(offset, limit, count) == offset + limit <= count

\* hasMore: offset + limit < (count || 0)
HasMore(offset, limit, count) == offset + limit < count

\* select("*", { count: "exact", head: true }); a countError is logged and
\* count || 0 is used
FeedGetCount(r, dbOk) ==
  /\ At(r, "feedGet", "count")
  /\ LET count == IF dbOk THEN Len(FeedRows(reqs[r].target)) ELSE 0 IN
     reqs' = [reqs EXCEPT
                ![r].pc = "done", ![r].status = 200,
                ![r].loc.total = count,
                ![r].loc.hasMore =
                   HasMore(reqs[r].loc.offset, reqs[r].loc.limit, count)]
  /\ UNCHANGED <<dbVars, uiVars>>

(***************************************************************************)
(* Callers of the endpoints other than the components modelled below.      *)
(***************************************************************************)
\* an HTTP request to a route handler
Issue(r, kind, clerk, target) ==
  /\ reqs[r].pc = "idle"
  /\ reqs' = [reqs EXCEPT ![r] = NewReq(kind, clerk, target, "api")]
  /\ UNCHANGED <<dbVars, uiVars>>

\* a multipart or JSON request that carries form data
IssueForm(r, kind, clerk, target, form) ==
  /\ reqs[r].pc = "idle"
  /\ reqs' = [reqs EXCEPT ![r] =
       [NewReq(kind, clerk, target, "api") EXCEPT !.form = form]]
  /\ UNCHANGED <<dbVars, uiVars>>

\* the caller has read the response; the slot is free for the next request
Finish(r) ==
  /\ reqs[r].pc = "done"
  /\ reqs[r].origin = "api"
  /\ reqs' = [reqs EXCEPT ![r] = IdleReq]
  /\ UNCHANGED <<dbVars, uiVars>>

(***************************************************************************)
(* The browser of the signed-in user.  A handler started by a click runs   *)
(* up to its await fetch(...); the rest of it runs when the response is    *)
(* there, with the state values the handler's closure captured at the      *)
(* click.                                                                  *)
(***************************************************************************)
\* the session of the browser
Viewer == "clerk_a"

\* the post of the card and the user of the profile header and list entry
CardPost == "p1"
ProfileUser == "ub"

\* response.ok; status 0 stands for a fetch that rejected
ResponseOk(st) == st \in 200..299

\* a request sent by a handler whose closure holds flag and count
ClientReq(kind, target, origin, flag, count) ==
  [NewReq(kind, Viewer, target, origin) EXCEPT !.capFlag = flag,
                                               !.capCount = count]

\* the handler has run to its end; alerted tells whether it called alert()
Settle(r, alerted) ==
  [reqs EXCEPT ![r] = [IdleReq EXCEPT !.pc = "settled",
                                      !.origin = reqs[r].origin,
                                      !.alerted = alerted]]

\* fetch() rejects: the request never reaches a route handler
FetchRejects(r) ==
  /\ reqs[r].pc = "sent"
  /\ reqs[r].origin # "api"
  /\ reqs' = [reqs EXCEPT ![r].pc = "done", ![r].status = 0,
                          ![r].form = NoForm]
  /\ UNCHANGED <<dbVars, uiVars>>

\* nothing of the handler's run is left
Dismiss(r) ==
  /\ reqs[r].pc = "settled"
  /\ reqs' = [reqs EXCEPT ![r] = IdleReq]
  /\ UNCHANGED <<dbVars, uiVars>>

(***************************************************************************)
(* PostCard: the like button                                               *)
(***************************************************************************)
\* if (isLoading) return, of handleLikeClick
LikeClickGuard == ~isLoading

\* handleLikeClick up to the fetch
LikeClick(r) ==
  /\ view = "like"
  /\ reqs[r].pc = "idle"
  /\ LikeClickGuard
  /\ isLoading' = TRUE
  /\ reqs' = [reqs EXCEPT ![r] =
       ClientReq(IF isLiked THEN "likeDelete" ELSE "likePost", CardPost,
                 "likeClick", isLiked, likesCount)]
  /\ UNCHANGED <<dbVars, view, feedVars, timeVars, isLiked, likesCount, isBookmarked,
                 isBookmarkLoading, headerVars, isFollowedByViewer,
                 searchVars>>

\* the 409 branch shared by handleLikeClick and handleDoubleClick: the flag
\* and the count after it
SyncLiked(q) == IF ~q.capFlag THEN TRUE ELSE isLiked

SyncLikesCount(q) ==
  IF ~q.capFlag /\ q.capCount = 0 THEN 1 ELSE likesCount

\* handleLikeClick from the response to the end of finally
LikeClickResponse(r) ==
  /\ reqs[r].pc = "done"
  /\ reqs[r].origin = "likeClick"
  /\ LET q == reqs[r] IN
     IF q.status = 409
       THEN /\ isLiked' = SyncLiked(q)
            /\ likesCount' = SyncLikesCount(q)
            /\ reqs' = Settle(r, FALSE)
     ELSE IF ~ResponseOk(q.status)
       THEN /\ UNCHANGED <<isLiked, likesCount>>
            /\ reqs' = Settle(r, TRUE)
       ELSE /\ isLiked' = ~q.capFlag
            /\ likesCount' = IF ~q.capFlag THEN q.capCount + 1
                             ELSE q.capCount - 1
            /\ reqs' = Settle(r, FALSE)
  /\ isLoading' = FALSE
  /\ UNCHANGED <<dbVars, view, feedVars, timeVars, isBookmarked, isBookmarkLoading, headerVars,
                 isFollowedByViewer, searchVars>>

(***************************************************************************)
(* PostCard: the double tap on the image                                   *)
(***************************************************************************)
\* handleDoubleClick up to the fetch; isLoading is read and never set
DoubleClick(r) ==
  /\ view = "like"
  /\ reqs[r].pc = "idle"
  /\ ~(isLiked \/ isLoading)
  /\ reqs' = [reqs EXCEPT ![r] =
       ClientReq("likePost", CardPost, "doubleClick", isLiked, likesCount)]
  /\ UNCHANGED <<dbVars, uiVars>>

\* handleDoubleClick from the response on
DoubleClickResponse(r) ==
  /\ reqs[r].pc = "done"
  /\ reqs[r].origin = "doubleClick"
  /\ LET q == reqs[r] IN
     IF q.status = 409
       THEN /\ isLiked' = SyncLiked(q)
            /\ likesCount' = SyncLikesCount(q)
            /\ reqs' = Settle(r, FALSE)
     ELSE IF ~ResponseOk(q.status)
       THEN /\ UNCHANGED <<isLiked, likesCount>>
            /\ reqs' = Settle(r, TRUE)
       ELSE /\ isLiked' = TRUE
            /\ likesCount' = q.capCount + 1
            /\ reqs' = Settle(r, FALSE)
  /\ UNCHANGED <<dbVars, view, feedVars, timeVars, isLoading, isBookmarked, isBookmarkLoading,
                 headerVars, isFollowedByViewer, searchVars>>

(***************************************************************************)
(* PostCard: the bookmark button                                           *)
(***************************************************************************)
\* handleBookmarkClick up to the fetch
BookmarkClick(r) ==
  /\ view = "bookmark"
  /\ reqs[r].pc = "idle"
  /\ ~isBookmarkLoading
  /\ isBookmarkLoading' = TRUE
  /\ reqs' = [reqs EXCEPT ![r] =
       ClientReq(IF isBookmarked THEN "bookmarkDelete" ELSE "bookmarkPost",
                 CardPost, "bookmarkClick", isBookmarked, 0)]
  /\ UNCHANGED <<dbVars, view, feedVars, timeVars, isLiked, likesCount, isLoading, isBookmarked,
                 headerVars, isFollowedByViewer, searchVars>>

\* handleBookmarkClick from the response to the end of finally: every
\* response that is not ok, 409 included, is thrown and alerted
BookmarkClickResponse(r) ==
  /\ reqs[r].pc = "done"
  /\ reqs[r].origin = "bookmarkClick"
  /\ IF ~ResponseOk(reqs[r].status)
       THEN /\ UNCHANGED isBookmarked
            /\ reqs' = Settle(r, TRUE)
       ELSE /\ isBookmarked' = ~reqs[r].capFlag
            /\ reqs' = Settle(r, FALSE)
  /\ isBookmarkLoading' = FALSE
  /\ UNCHANGED <<dbVars, view, feedVars, timeVars, isLiked, likesCount, isLoading, headerVars,
                 isFollowedByViewer, searchVars>>

(***************************************************************************)
(* ProfileHeader: the follow button on another user's profile              *)
(***************************************************************************)
\* the flag and the counter that handleFollowClick sets before the fetch
OptimisticFlag_Unchanged(flag) == flag

OptimisticFlag(flag) == ~flag

OptimisticCount(flag, count) == IF ~flag THEN count + 1 ELSE count - 1

\* handleFollowClick up to the fetch (isOwnProfile is false)
FollowClick(r) ==
  /\ view = "profile"
  /\ reqs[r].pc = "idle"
  /\ ~headerLoading
  /\ headerLoading' = TRUE
  /\ isFollowing' = OptimisticFlag(isFollowing)
  /\ followersCount' = OptimisticCount(isFollowing, followersCount)
  /\ reqs' = [reqs EXCEPT ![r] =
       ClientReq(IF isFollowing THEN "followDelete" ELSE "followPost",
                 ProfileUser, "followClick", isFollowing, followersCount)]
  /\ UNCHANGED <<dbVars, view, feedVars, timeVars, cardVars, isFollowedByViewer, searchVars>>

\* the flag after a response that is not ok: setIsFollowing(original...)
RolledBackFlag(q) == q.capFlag

\* handleFollowClick from the response to the end of finally
FollowClickResponse(r) ==
  /\ reqs[r].pc = "done"
  /\ reqs[r].origin = "followClick"
  /\ IF ~ResponseOk(reqs[r].status)
       THEN /\ isFollowing' = RolledBackFlag(reqs[r])
            /\ followersCount' = reqs[r].capCount
            /\ reqs' = Settle(r, TRUE)
       ELSE /\ UNCHANGED <<isFollowing, followersCount>>
            /\ reqs' = Settle(r, FALSE)
  /\ headerLoading' = FALSE
  /\ UNCHANGED <<dbVars, view, feedVars, timeVars, cardVars, isFollowedByViewer, searchVars>>

(***************************************************************************)
(* FollowListModal: the follow button of a listed user                     *)
(***************************************************************************)
\* handleToggleFollow(user.id, !(user.isFollowedByViewer === true)) up to
\* the fetch
ToggleFollow(r) ==
  /\ view = "followList"
  /\ reqs[r].pc = "idle"
  /\ reqs' = [reqs EXCEPT ![r] =
       ClientReq(IF isFollowedByViewer THEN "followDelete" ELSE "followPost",
                 ProfileUser, "toggleFollow", isFollowedByViewer, 0)]
  /\ UNCHANGED <<dbVars, uiVars>>

\* handleToggleFollow from the response on; willFollow is the negation of
\* the flag at the click
ToggleFollowResponse(r) ==
  /\ reqs[r].pc = "done"
  /\ reqs[r].origin = "toggleFollow"
  /\ IF ~ResponseOk(reqs[r].status)
       THEN /\ UNCHANGED isFollowedByViewer
            /\ reqs' = Settle(r, TRUE)
       ELSE /\ isFollowedByViewer' = ~reqs[r].capFlag
            /\ reqs' = Settle(r, FALSE)
  /\ UNCHANGED <<dbVars, view, feedVars, timeVars, cardVars, headerVars, searchVars>>

(***************************************************************************)
(* GET /api/search                                                         *)
(***************************************************************************)
\* from("users") ... .ilike("name", searchPattern)
SearchUsers(q) == {u.id : u \in {v \in usersTable : ILike(v.name, q)}}

\* from("post_stats") ... .ilike("caption", searchPattern)
SearchPosts(q) == {p \in PostIds : PostExists(p) /\ ILike(posts[p].caption, q)}

\* the whole handler: a query that fails leaves its list empty and the
\* answer is still 200; an exception is the 500 of the catch-all
SearchGet(r, dbOk, thrown) ==
  /\ At(r, "search", "sent")
  /\ LET q == reqs[r].form.q
         type == reqs[r].form.searchType
         found == [users |-> IF type = "users" /\ dbOk THEN SearchUsers(q)
                             ELSE {},
                   posts |-> IF type = "posts" /\ dbOk THEN SearchPosts(q)
                             ELSE {}] IN
     reqs' =
       IF Trim(q) = <<>> THEN Respond(r, 200)
       ELSE IF thrown THEN Respond(r, 500)
       ELSE [reqs EXCEPT ![r].pc = "done", ![r].status = 200,
                         ![r].form = NoForm,
                         ![r].loc.users = found.users,
                         ![r].loc.posts = found.posts]
  /\ UNCHANGED <<dbVars, uiVars>>

(***************************************************************************)
(* SearchPage.  Time passes in steps of half the debounce delay.            *)
(***************************************************************************)
\* the delay of the setTimeout of the debounce effect
DebounceMs == 300

TickMs == DebounceMs \div 2

\* the ref when the timer it names is not pending: before the first
\* setTimeout and after the callback has run
NoTimer == [q |-> <<>>, type |-> "users", left |-> 0, set |-> FALSE]

\* clearTimeout without effect
ClearTimeout_Skipped(pending, ref) == pending

\* clearTimeout(debounceTimerRef.current)
ClearTimeout(pending, ref) == pending \ {ref}

\* a response that is dropped while newer input waits for its timer
ResponseApplies_NoTimerPending(q) == timers = {}

\* a response is applied whichever request it answers: nothing compares it
\* with the latest request
ResponseApplies(q) == TRUE

\* the request of performSearch(searchTerm, type) for a term that is not
\* blank
SearchReq(term, type) ==
  [NewReq("search", Viewer, None, "search") EXCEPT !.form.q = term,
                                                   !.form.searchType = type]

\* the effect without the test of the trimmed query
DebounceEffect_NoBlankTest(q, type) ==
  LET cleared == ClearTimeout(timers, debounceTimerRef)
      timer == [q |-> q, type |-> type, left |-> DebounceMs, set |-> TRUE]
  IN /\ timers' = cleared \cup {timer}
     /\ debounceTimerRef' = timer
     /\ searchLoading' = TRUE
     /\ UNCHANGED <<userResults, postResults>>

\* the debounce effect and its clean-up after the input or the tab changed
\* to (q, type)
DebounceEffect(q, type) ==
  LET cleared == ClearTimeout(timers, debounceTimerRef)
      timer == [q |-> q, type |-> type, left |-> DebounceMs, set |-> TRUE]
  IN IF Trim(q) = <<>>
       THEN /\ timers' = cleared
            /\ debounceTimerRef' =
                 IF debounceTimerRef \in cleared THEN debounceTimerRef
                 ELSE NoTimer
            /\ userResults' = {} /\ postResults' = {}
            /\ searchLoading' = FALSE
       ELSE /\ timers' = cleared \cup {timer}
            /\ debounceTimerRef' = timer
            /\ searchLoading' = TRUE
            /\ UNCHANGED <<userResults, postResults>>

\* handleInputChange, followed by the effect of the new query
InputChange(value) ==
  /\ view = "search"
  /\ value # query
  /\ query' = value
  /\ searchError' = FALSE
  /\ sinceInput' = 0
  /\ DebounceEffect(value, searchType)
  /\ UNCHANGED <<dbVars, reqs, view, feedVars, timeVars, cardVars, headerVars,
                 isFollowedByViewer, searchQuery, searchType>>

\* handleTypeChange: the search is run at once when the input is not
\* blank; the effect runs again when the tab has changed
TypeChange(r, type) ==
  /\ view = "search"
  /\ searchType' = type
  /\ searchError' = FALSE
  /\ IF Trim(query) # <<>>
       THEN /\ reqs[r].pc = "idle"
            /\ reqs' = [reqs EXCEPT ![r] = SearchReq(query, type)]
       ELSE /\ r = 1
            /\ UNCHANGED reqs
  /\ IF type # searchType
       THEN DebounceEffect(query, type)
       ELSE /\ searchLoading' = (Trim(query) # <<>> \/ searchLoading)
            /\ IF Trim(query) = <<>>
                 THEN userResults' = {} /\ postResults' = {}
                 ELSE UNCHANGED <<userResults, postResults>>
            /\ UNCHANGED <<timers, debounceTimerRef>>
  /\ UNCHANGED <<dbVars, view, feedVars, timeVars, cardVars, headerVars, isFollowedByViewer,
                 query, searchQuery, sinceInput>>

\* the time-out callback: setSearchQuery(query); performSearch(query, type)
TimerFires(r) ==
  /\ view = "search"
  /\ reqs[r].pc = "idle"
  /\ \E t \in timers :
       /\ t.left = 0
       /\ timers' = timers \ {t}
       /\ debounceTimerRef' =
            IF debounceTimerRef = t THEN NoTimer ELSE debounceTimerRef
       /\ searchQuery' = t.q
       /\ reqs' = [reqs EXCEPT ![r] = SearchReq(t.q, t.type)]
  /\ searchLoading' = TRUE
  /\ searchError' = FALSE
  /\ UNCHANGED <<dbVars, view, feedVars, timeVars, cardVars, headerVars, isFollowedByViewer,
                 query, searchType, userResults, postResults, sinceInput>>

\* TickMs pass; a timer that is due fires before more time passes
Tick ==
  /\ view = "search"
  /\ \A t \in timers : t.left > 0
  /\ timers # {} \/ sinceInput < DebounceMs
  /\ timers' = {[t EXCEPT !.left = @ - TickMs] : t \in timers}
  /\ debounceTimerRef' =
       IF debounceTimerRef \in timers
         THEN [debounceTimerRef EXCEPT !.left = @ - TickMs]
         ELSE debounceTimerRef
  /\ sinceInput' = IF sinceInput < DebounceMs THEN sinceInput + TickMs
                   ELSE DebounceMs
  /\ UNCHANGED <<dbVars, reqs, view, feedVars, timeVars, cardVars, headerVars,
                 isFollowedByViewer, query, searchQuery, searchType,
                 userResults, postResults, searchLoading, searchError>>

\* performSearch from the response to the end of finally
SearchResponse(r) ==
  /\ reqs[r].pc = "done"
  /\ reqs[r].origin = "search"
  /\ IF ~ResponseOk(reqs[r].status)
       THEN /\ searchError' = TRUE
            /\ userResults' = {} /\ postResults' = {}
       ELSE /\ IF ResponseApplies(reqs[r])
                 THEN /\ userResults' = reqs[r].loc.users
                      /\ postResults' = reqs[r].loc.posts
                 ELSE UNCHANGED <<userResults, postResults>>
            /\ UNCHANGED searchError
  /\ searchLoading' = FALSE
  /\ reqs' = [reqs EXCEPT ![r] = IdleReq]
  /\ UNCHANGED <<dbVars, view, feedVars, timeVars, cardVars, headerVars, isFollowedByViewer,
                 query, searchQuery, searchType, timers, debounceTimerRef,
                 sinceInput>>

(***************************************************************************)
(* The like and follow endpoints under concurrent callers.                 *)
(***************************************************************************)
\* the sessions of the two synced users
SyncedClerks == {"clerk_a", "clerk_b"}

\* a database holding one post of user ua and no relation rows
NoRelations ==
  /\ likes = [k \in LikeKeys |-> 0]
  /\ bookmarks = [k \in LikeKeys |-> 0]
  /\ follows = [k \in FollowKeys |-> 0]

\* the image of the post the relation endpoints are exercised on
SeedPath == <<"clerk_a", "f1", "jpg">>

InitTables ==
  /\ NoRelations
  /\ posts = [p \in PostIds |->
                IF p = "p1" THEN [exists |-> TRUE, user_id |-> "ua",
                                  image_url |-> PublicUrl(SeedPath),
                                  caption |-> <<"a">>]
                ELSE NoPost]
  /\ comments = [c \in CommentIds |-> NoComment]
  /\ storage = {SeedPath}
  /\ nPosts = 1 /\ nComments = 0 /\ nFiles = 1
  /\ older = 0

\* the search page right after it is mounted
NoSearch ==
  /\ query = <<>> /\ searchQuery = <<>> /\ searchType = "users"
  /\ userResults = {} /\ postResults = {}
  /\ searchLoading = FALSE /\ searchError = FALSE
  /\ timers = {} /\ debounceTimerRef = NoTimer
  /\ sinceInput = DebounceMs

(***************************************************************************)
(* The home page and its PostFeed component: the page is rendered on the   *)
(* server from the first page of the feed, and the component asks for the  *)
(* next page whenever the sentinel below the last card scrolls into view.  *)
(***************************************************************************)
\* fetch(`/api/posts?page=${page + 1}&limit=10`)
FeedPageSize == 10

PageQuery(page) ==
  [NoForm EXCEPT !.hasPage = TRUE, !.page = page,
                 !.hasLimit = TRUE, !.limit = FeedPageSize]

\* HomePage: fetch(`${baseUrl}/api/posts?page=1&limit=10`), without a session
HomeLoad(r) ==
  /\ view = "home"
  /\ reqs[r].pc = "idle"
  /\ reqs' = [reqs EXCEPT ![r] =
       [NewReq("feedGet", None, None, "home") EXCEPT !.form = PageQuery(1)]]
  /\ view' = "homeLoading"
  /\ UNCHANGED <<dbVars, feedVars, timeVars, cardVars, headerVars, isFollowedByViewer,
                 searchVars>>

\* HomePage renders <PostFeed initialPosts initialPage={1} initialHasMore
\* initialError />
HomeRender(r) ==
  /\ view = "homeLoading"
  /\ reqs[r].pc = "done"
  /\ reqs[r].origin = "home"
  /\ IF ResponseOk(reqs[r].status)
       THEN /\ feedPosts' = reqs[r].loc.rows
            /\ feedHasMore' = reqs[r].loc.hasMore
            /\ feedError' = FALSE
       ELSE /\ feedPosts' = <<>>
            /\ feedHasMore' = FALSE
            /\ feedError' = TRUE
  /\ feedPage' = 1
  /\ feedLoading' = FALSE
  /\ view' = "feed"
  /\ reqs' = [reqs EXCEPT ![r] = IdleReq]
  /\ UNCHANGED <<dbVars, cardVars, headerVars, isFollowedByViewer, searchVars,
                 timeVars>>

\* The observer's target is rendered below a non-empty list while hasMore.
SentinelShown == view = "feed" /\ feedPosts # <<>> /\ feedHasMore

\* IntersectionObserver callback and loadMorePosts up to its fetch
LoadMore(r) ==
  /\ SentinelShown
  /\ ~feedLoading
  /\ reqs[r].pc = "idle"
  /\ feedLoading' = TRUE
  /\ feedError' = FALSE
  /\ reqs' = [reqs EXCEPT ![r] =
       [NewReq("feedGet", Viewer, None, "feed")
          EXCEPT !.form = PageQuery(feedPage + 1)]]
  /\ UNCHANGED <<dbVars, view, feedPosts, feedPage, feedHasMore, cardVars,
                 headerVars, isFollowedByViewer, searchVars,
                 timeVars>>

\* loadMorePosts from the response of its fetch on
LoadMoreResponse(r) ==
  /\ reqs[r].pc = "done"
  /\ reqs[r].origin = "feed"
  /\ IF ~ResponseOk(reqs[r].status)
       THEN /\ feedError' = TRUE
            /\ UNCHANGED <<feedPosts, feedPage, feedHasMore>>
       ELSE /\ IF reqs[r].loc.rows # <<>>
                 THEN /\ feedPosts' = feedPosts \o reqs[r].loc.rows
                      /\ feedPage' = feedPage + 1
                      /\ feedHasMore' = reqs[r].loc.hasMore
                 ELSE /\ feedHasMore' = FALSE
                      /\ UNCHANGED <<feedPosts, feedPage>>
            /\ UNCHANGED feedError
  /\ feedLoading' = FALSE
  /\ reqs' = [reqs EXCEPT ![r] = IdleReq]
  /\ UNCHANGED <<dbVars, view, cardVars, headerVars, isFollowedByViewer,
                 searchVars,
                 timeVars>>

(***************************************************************************)
(* The time shown on a card or a comment.                                  *)
(***************************************************************************)
\* the label before anything is rendered
NoLabel == [n |-> 0, unit |-> "none"]

Floor(a, b) == a \div b

\* formatRelativeTime from diffInSeconds on; a label is its number and
\* its suffix: "now" is the label without a number ("방금 전"), the others
\* are `${n}분 전`, `${n}시간 전`, `${n}일 전`, `${n}주 전`, `${n}개월 전`
\* and `${n}년 전`
formatRelativeTime(seconds) ==
  LET diffInMinutes == Floor(seconds, 60)
      diffInHours == Floor(diffInMinutes, 60)
      diffInDays == Floor(diffInHours, 24)
      diffInWeeks == Floor(diffInDays, 7)
      diffInMonths == Floor(diffInDays, 30)
      diffInYears == Floor(diffInDays, 365)
  IN IF seconds < 60 THEN [n |-> 0, unit |-> "now"]
     ELSE IF diffInMinutes < 60 THEN [n |-> diffInMinutes, unit |-> "minutes"]
     ELSE IF diffInHours < 24 THEN [n |-> diffInHours, unit |-> "hours"]
     ELSE IF diffInDays < 7 THEN [n |-> diffInDays, unit |-> "days"]
     ELSE IF diffInWeeks < 4 THEN [n |-> diffInWeeks, unit |-> "weeks"]
     ELSE IF diffInMonths < 12 THEN [n |-> diffInMonths, unit |-> "months"]
     ELSE [n |-> diffInYears, unit |-> "years"]

\* a component renders the label of the time that has passed
RenderTime ==
  /\ relativeTime' = formatRelativeTime(diffInSeconds)
  /\ UNCHANGED <<dbVars, reqs, view, cardVars, headerVars, isFollowedByViewer,
                 searchVars, feedVars, diffInSeconds>>

NoTime == diffInSeconds = 0 /\ relativeTime = NoLabel

\* no component is mounted
\* PostFeed not mounted
NoFeed ==
  /\ feedPosts = <<>> /\ feedPage = 0 /\ feedLoading = FALSE
  /\ feedHasMore = FALSE /\ feedError = FALSE

NoUi ==
  /\ view = "none"
  /\ isLiked = FALSE /\ likesCount = 0 /\ isLoading = FALSE
  /\ isBookmarked = FALSE /\ isBookmarkLoading = FALSE
  /\ isFollowing = FALSE /\ followersCount = 0 /\ headerLoading = FALSE
  /\ isFollowedByViewer = FALSE
  /\ NoSearch
  /\ NoFeed
  /\ NoTime

Init ==
  /\ InitTables
  /\ NoUi
  /\ reqs = [r \in ReqIds |-> IdleReq]

Next ==
  \E r \in ReqIds, dbOk \in BOOLEAN :
    \/ \E clerk \in SyncedClerks :
         Issue(r, "likePost", clerk, "p1")
    \/ LikePostStart(r, dbOk)
    \/ LikePostCheck(r, dbOk)
    \/ LikePostInsert(r, dbOk)
    \/ \E clerk \in SyncedClerks :
         Issue(r, "likeDelete", clerk, "p1")
    \/ LikeDeleteStart(r, dbOk)
    \/ LikeDeleteRows(r, dbOk)
    \/ \E t \in UserIds :
         Issue(r, "followPost", "clerk_a", t)
    \/ FollowPostStart(r, dbOk)
    \/ FollowPostCheck(r, dbOk)
    \/ FollowPostInsert(r, dbOk)
    \/ Issue(r, "followDelete", "clerk_a", "ub")
    \/ FollowDeleteStart(r, dbOk)
    \/ FollowDeleteCheck(r, dbOk)
    \/ FollowDeleteRows(r, dbOk)
    \/ Finish(r)

Spec == Init /\ [][Next]_vars

NextBookmarks ==
  \E r \in ReqIds, dbOk \in BOOLEAN :
    \/ \E clerk \in ClerkIds, p \in PostIds :
         Issue(r, "bookmarkUpsert", clerk, p)
    \/ BookmarkUpsertStart(r, dbOk)
    \/ BookmarkUpsert(r, dbOk)
    \/ \E clerk \in SyncedClerks :
         Issue(r, "bookmarkUpsertDelete", clerk, "p1")
    \/ BookmarkUpsertDeleteStart(r, dbOk)
    \/ BookmarkUpsertDeleteRows(r, dbOk)
    \/ Finish(r)

SpecBookmarks == Init /\ [][NextBookmarks]_vars

(***************************************************************************)
(* C3.  In the upsert revision a bookmark-creation request whose upsert    *)
(* the database serves answers 200 whether or not the bookmark already     *)
(* existed (never 409), no (post, user) pair ever has two bookmark rows,   *)
(* and right after such a request exactly one row exists for its pair.     *)
(***************************************************************************)
C3_UpsertIdempotent ==
  /\ [](/\ \A k \in LikeKeys : bookmarks[k] <= 1
        /\ \A r \in ReqIds :
             At(r, "bookmarkUpsert", "done") =>
               /\ reqs[r].status \in {200, 401, 400, 500}
               /\ reqs[r].loc.served <=> reqs[r].status = 200)
  /\ [][\A r \in ReqIds :
          (At(r, "bookmarkUpsert", "upsert") /\ reqs'[r].status = 200) =>
            bookmarks'[<<reqs[r].target, reqs[r].user>>] = 1]_vars

\* the same user's two creation requests have both answered 200, the first
\* having created the row and the second having found it
C3_Witness ==
  \E r1, r2 \in ReqIds :
    /\ r1 # r2
    /\ At(r1, "bookmarkUpsert", "done") /\ At(r2, "bookmarkUpsert", "done")
    /\ reqs[r1].user = reqs[r2].user /\ reqs[r1].target = reqs[r2].target
    /\ reqs[r1].status = 200 /\ reqs[r2].status = 200
    /\ ~reqs[r1].loc.existed /\ reqs[r2].loc.existed
    /\ bookmarks[<<reqs[r1].target, reqs[r1].user>>] = 1

(***************************************************************************)
(* Posts: creation by one user and deletion by two, starting from an empty *)
(* database and an empty bucket.                                           *)
(***************************************************************************)
\* a 1 MB PNG with an empty caption
ValidImage == [NoForm EXCEPT !.hasImage = TRUE, !.size = 1048576,
                             !.type = "image/png", !.ext = <<"png">>]

InitPosts ==
  /\ NoRelations
  /\ posts = [p \in PostIds |-> NoPost]
  /\ comments = [c \in CommentIds |-> NoComment]
  /\ storage = {}
  /\ nPosts = 0 /\ nComments = 0 /\ nFiles = 0
  /\ older = 0
  /\ NoUi
  /\ reqs = [r \in ReqIds |-> IdleReq]

NextPosts ==
  \E r \in ReqIds, ok \in BOOLEAN :
    \/ IssueForm(r, "postCreate", "clerk_a", None, ValidImage)
    \/ PostCreateStart(r, ok)
    \/ PostCreateUpload(r, ok)
    \/ PostCreateInsert(r, ok)
    \/ PostCreateRollback(r, ok)
    \/ \E clerk \in SyncedClerks :
         Issue(r, "postDelete", clerk, "p1")
    \/ PostDeleteStart(r, ok)
    \/ PostDeleteFetch(r, ok)
    \/ PostDeleteRemove(r, ok)
    \/ PostDeleteRow(r, ok)
    \/ Finish(r)

SpecPosts == InitPosts /\ [][NextPosts]_vars

(***************************************************************************)
(* C2.  When a post-creation request has uploaded its image and the insert *)
(* of the posts row fails, the request ends with the uploaded object no    *)
(* longer in storage.  The step that ends such a request is the one that   *)
(* follows the removal; the removal's result is not looked at, so the      *)
(* object stays when the removal fails, and TLC finds that step.           *)
(***************************************************************************)
C2_NoOrphanAfterFailedInsert ==
  [][\A r \in ReqIds :
       (At(r, "postCreate", "rollback") /\ reqs'[r].pc = "done")
         => reqs[r].loc.path \notin storage']_vars

(***************************************************************************)
(* Deletion: two users comment on the seeded post and delete comments and  *)
(* the post.                                                               *)
(***************************************************************************)
\* a one-character comment
ValidComment == [NoForm EXCEPT !.hasContent = TRUE, !.body = 1]

NextDelete ==
  \E r \in ReqIds, ok \in BOOLEAN :
    \/ IssueForm(r, "commentPost", "clerk_b", "p1", ValidComment)
    \/ CommentPostStart(r, ok)
    \/ CommentPostInsert(r, ok)
    \/ \E clerk \in SyncedClerks :
         \/ Issue(r, "commentDelete", clerk, "c1")
         \/ Issue(r, "postDelete", clerk, "p1")
    \/ CommentDeleteStart(r, ok)
    \/ CommentDeleteFetch(r, ok)
    \/ CommentDeleteRow(r, ok)
    \/ PostDeleteStart(r, ok)
    \/ PostDeleteFetch(r, ok)
    \/ PostDeleteRemove(r, ok)
    \/ PostDeleteRow(r, ok)
    \/ Finish(r)

SpecDelete == Init /\ [][NextDelete]_vars

\* request r is a post deletion by a user who does not own the post
NonOwnerPostDelete(r) ==
  /\ reqs[r].kind = "postDelete"
  /\ PostExists(reqs[r].target)
  /\ posts[reqs[r].target].user_id # CurrentUser(reqs[r].clerk)

\* request r is a comment deletion by a user who did not write the comment
NonAuthorCommentDelete(r) ==
  /\ reqs[r].kind = "commentDelete"
  /\ comments[reqs[r].target].exists
  /\ comments[reqs[r].target].user_id # CurrentUser(reqs[r].clerk)

(***************************************************************************)
(* C10.  A post deletion by a caller who is not the post's owner, and a    *)
(* comment deletion by a caller who is not the comment's author, is        *)
(* answered 403 and removes nothing: no step of such a request changes a   *)
(* table or the bucket, the request never gets past the ownership test,    *)
(* and once the handler has read the row the answer is 403.  Only a       *)
(* lookup that the database fails to serve ends the request before that,   *)
(* with 404.                                                               *)
(***************************************************************************)
C10_NonOwnerDeleteForbidden ==
  [][\A r \in ReqIds :
       ((NonOwnerPostDelete(r) \/ NonAuthorCommentDelete(r))
          /\ reqs'[r] # reqs[r])
         => /\ dbVars' = dbVars
            /\ reqs[r].pc \in {"sent", "fetch", "done"}
            /\ reqs[r].pc = "fetch"
                 => /\ reqs'[r].pc = "done"
                    /\ reqs'[r].status \in {403, 404}
            /\ (PostDeleteFetch(r, TRUE) \/ CommentDeleteFetch(r, TRUE))
                 => reqs'[r].status = 403
            /\ reqs'[r].pc = "done" => reqs'[r].status \in {403, 404}]_vars

\* both refusals have been given, and the post, its image and the comment
\* are still there
C10_Witness ==
  /\ \E r \in ReqIds :
       /\ At(r, "postDelete", "done") /\ reqs[r].status = 403
       /\ reqs[r].clerk = "clerk_b" /\ reqs[r].target = "p1"
  /\ \E r \in ReqIds :
       /\ At(r, "commentDelete", "done") /\ reqs[r].status = 403
       /\ reqs[r].clerk = "clerk_a" /\ reqs[r].target = "c1"
  /\ PostExists("p1") /\ posts["p1"].user_id = "ua"
  /\ StoragePathOf(posts["p1"].image_url) \in storage
  /\ comments["c1"].exists /\ comments["c1"].user_id = "ub"

(***************************************************************************)
(* The togglers: one browser in which the user works the like controls or  *)
(* the bookmark button of a post card, the follow button of a profile      *)
(* header or the one of a follow list entry, and a second session of the   *)
(* same user that creates the same relation.                               *)
(***************************************************************************)
Views == {"like", "bookmark", "profile", "followList"}

InitToggle ==
  /\ InitTables
  /\ view \in Views
  /\ isLiked = FALSE /\ likesCount = 0 /\ isLoading = FALSE
  /\ isBookmarked = FALSE /\ isBookmarkLoading = FALSE
  /\ isFollowing = FALSE /\ followersCount = 0 /\ headerLoading = FALSE
  /\ isFollowedByViewer = FALSE
  /\ NoSearch
  /\ NoFeed
  /\ NoTime
  /\ reqs = [r \in ReqIds |-> IdleReq]

NextToggle ==
  \E r \in ReqIds, ok \in BOOLEAN :
    \/ LikeClick(r)
    \/ LikeClickResponse(r)
    \/ DoubleClick(r)
    \/ DoubleClickResponse(r)
    \/ BookmarkClick(r)
    \/ BookmarkClickResponse(r)
    \/ FollowClick(r)
    \/ FollowClickResponse(r)
    \/ ToggleFollow(r)
    \/ ToggleFollowResponse(r)
    \/ FetchRejects(r)
    \/ Dismiss(r)
    \/ view = "like" /\ Issue(r, "likePost", Viewer, CardPost)
    \/ view = "bookmark" /\ Issue(r, "bookmarkPost", Viewer, CardPost)
    \/ view \in {"profile", "followList"}
         /\ Issue(r, "followPost", Viewer, ProfileUser)
    \/ Finish(r)
    \/ LikePostStart(r, ok)
    \/ LikePostCheck(r, ok)
    \/ LikePostInsert(r, ok)
    \/ LikeDeleteStart(r, ok)
    \/ LikeDeleteRows(r, ok)
    \/ BookmarkPostStart(r, ok)
    \/ BookmarkPostCheck(r, ok)
    \/ BookmarkPostInsert(r, ok)
    \/ BookmarkDeleteStart(r, ok)
    \/ BookmarkDeleteRows(r, ok)
    \/ FollowPostStart(r, ok)
    \/ FollowPostCheck(r, ok)
    \/ FollowPostInsert(r, ok)
    \/ FollowDeleteStart(r, ok)
    \/ FollowDeleteCheck(r, ok)
    \/ FollowDeleteRows(r, ok)

SpecToggle == InitToggle /\ [][NextToggle]_vars

\* the requests of the handlers in Origins that have not been answered to
\* the handler yet
Pending(Origins) ==
  {r \in ReqIds : reqs[r].origin \in Origins
                  /\ reqs[r].pc \notin {"idle", "settled"}}

\* this step is handler r reading its response and running to its end
HandlesResponse(r) == reqs[r].pc = "done" /\ reqs'[r].pc = "settled"

\* this step is a click that starts a handler of the given origin in slot r
Clicks(r, origin) == reqs[r].pc = "idle" /\ reqs'[r].origin = origin

(***************************************************************************)
(* C4.  For each flag of each component instance at most one request is    *)
(* in flight at any time, whichever control started it: the like button    *)
(* and the double tap for liked, the bookmark button for bookmarked, the   *)
(* follow button of the header and the one of the list entry for           *)
(* following.  The double tap never sets isLoading and the list entry has  *)
(* no loading flag, and TLC finds two requests for one flag.               *)
(***************************************************************************)
C4_OneRequestPerFlag ==
  \A Origins \in {{"likeClick", "doubleClick"}, {"bookmarkClick"},
                  {"followClick"}, {"toggleFollow"}} :
    Cardinality(Pending(Origins)) <= 1

(***************************************************************************)
(* C5.  When a creation request of a toggler is answered 409, the handler  *)
(* ends with the flag true and without an alert, for liked, bookmarked and *)
(* following.  The bookmark and the follow handlers treat 409 as any       *)
(* failed response, and TLC finds the step.                                *)
(***************************************************************************)
C5_ConflictReconciles ==
  [][\A r \in ReqIds :
       (HandlesResponse(r) /\ reqs[r].status = 409)
         => /\ ~reqs'[r].alerted
            /\ reqs[r].origin \in {"likeClick", "doubleClick"} => isLiked'
            /\ reqs[r].origin = "bookmarkClick" => isBookmarked'
            /\ reqs[r].origin = "followClick" => isFollowing'
            /\ reqs[r].origin = "toggleFollow" => isFollowedByViewer']_vars

C7_FailureRestores ==
  [][\A r \in ReqIds :
       (HandlesResponse(r) /\ reqs[r].status # 409
          /\ ~ResponseOk(reqs[r].status))
         => /\ reqs[r].origin = "likeClick"
                 => /\ ~isLoading' /\ reqs'[r].alerted
                    /\ isLiked' = reqs[r].capFlag
                    /\ likesCount' = reqs[r].capCount
            /\ reqs[r].origin = "bookmarkClick"
                 => /\ ~isBookmarkLoading' /\ reqs'[r].alerted
                    /\ isBookmarked' = reqs[r].capFlag
            /\ reqs[r].origin = "followClick"
                 => /\ ~headerLoading' /\ reqs'[r].alerted
                    /\ isFollowing' = reqs[r].capFlag
                    /\ followersCount' = reqs[r].capCount]_vars

(***************************************************************************)
(* The search page: typing, changing the tab, and the answers of the       *)
(* search endpoint arriving in any order.                                  *)
(***************************************************************************)
QueryValues == {<<>>, <<" ">>, <<"a">>, <<"b">>}

SearchTypes == {"users", "posts"}

InitSearch ==
  /\ InitTables
  /\ view = "search"
  /\ isLiked = FALSE /\ likesCount = 0 /\ isLoading = FALSE
  /\ isBookmarked = FALSE /\ isBookmarkLoading = FALSE
  /\ isFollowing = FALSE /\ followersCount = 0 /\ headerLoading = FALSE
  /\ isFollowedByViewer = FALSE
  /\ NoSearch
  /\ NoFeed
  /\ NoTime
  /\ reqs = [r \in ReqIds |-> IdleReq]

NextSearch ==
  \/ \E value \in QueryValues : InputChange(value)
  \/ Tick
  \/ \E r \in ReqIds :
       \/ \E type \in SearchTypes : TypeChange(r, type)
       \/ TimerFires(r)
       \/ \E dbOk \in BOOLEAN : SearchGet(r, dbOk, FALSE)
       \/ SearchGet(r, TRUE, TRUE)
       \/ FetchRejects(r)
       \/ SearchResponse(r)

SpecSearch == InitSearch /\ [][NextSearch]_vars

\* this step is performSearch of slot r reading its response
HandlesSearchResponse(r) ==
  /\ reqs[r].origin = "search"
  /\ reqs[r].pc = "done"
  /\ reqs'[r].pc = "idle"

\* this step sends a search request from slot r
IssuesSearch(r) == reqs[r].pc = "idle" /\ reqs'[r].kind = "search"

\* this step is the callback of a debounce timer that was due
TimerFired == \E t \in timers : t.left = 0 /\ timers' = timers \ {t}

(***************************************************************************)
(* C8.  A search response is applied to the result lists whenever it       *)
(* arrives, whether or not it answers the latest request: every 200        *)
(* response that the page reads becomes the content of both lists, so a    *)
(* late response for an older query replaces the results of a newer one.   *)
(***************************************************************************)
C8_EveryResponseApplied ==
  [][\A r \in ReqIds :
       (HandlesSearchResponse(r) /\ ResponseOk(reqs[r].status))
         => /\ userResults' = reqs[r].loc.users
            /\ postResults' = reqs[r].loc.posts]_vars

\* the input and the last search are "b", nothing is in flight or pending,
\* and the list shows the users found for "a"
C8_Witness ==
  /\ query = <<"b">> /\ searchQuery = <<"b">> /\ searchType = "users"
  /\ Pending({"search"}) = {} /\ timers = {}
  /\ ~searchLoading /\ ~searchError
  /\ userResults = SearchUsers(<<"a">>)
  /\ userResults # SearchUsers(<<"b">>)

(***************************************************************************)
(* C9 as stated.  A keystroke cancels the pending debounce timer before a  *)
(* new one is started, at most one timer is pending at any time, and a     *)
(* search request for input q is sent only when q has been the input for   *)
(* 300 ms.  A click on a tab sends its request at once, and TLC finds it   *)
(* sent less than 300 ms after the input changed.                          *)
(***************************************************************************)
C9_Original_OnlyAfterDebounce ==
  /\ [](Cardinality(timers) <= 1)
  /\ [][\A r \in ReqIds :
          IssuesSearch(r) => /\ reqs'[r].form.q = query
                             /\ sinceInput = DebounceMs]_vars

(***************************************************************************)
(* C9 as amended.  A keystroke cancels the pending debounce timer before a *)
(* new one is started, at most one timer is pending at any time, and a     *)
(* request sent by the debounce timer is for the input q at that moment,   *)
(* which has been the input for 300 ms; a click on a search-type tab sends *)
(* a request for the current input, if it is not blank, at once.           *)
(***************************************************************************)
C9_DebouncedExceptTabClick ==
  /\ [](Cardinality(timers) <= 1)
  /\ [][query' # query => timers' \cap timers = {}]_vars
  /\ [][\A r \in ReqIds :
          IssuesSearch(r)
            => /\ reqs'[r].form.q = query
               /\ Trim(query) # <<>>
               /\ reqs'[r].form.searchType = searchType'
               /\ TimerFired => sinceInput = DebounceMs]_vars

\* the timer has fired for the input "a", unchanged for 300 ms, and its
\* request is on its way
C9_Witness ==
  \E r \in ReqIds :
    /\ At(r, "search", "sent")
    /\ reqs[r].form.q = <<"a">> /\ query = <<"a">>
    /\ searchQuery = <<"a">> /\ timers = {}
    /\ sinceInput = DebounceMs
    /\ Cardinality(Pending({"search"})) = 1

(***************************************************************************)
(* The like endpoints and the bookmark endpoints of the revision that      *)
(* checks first, called by two users for the same post: user ub likes and  *)
(* bookmarks it, user ua likes it and removes likes and bookmarks.         *)
(***************************************************************************)
RelationKinds == {"likePost", "likeDelete", "bookmarkPost", "bookmarkDelete"}

NextOwnRows ==
  \E r \in ReqIds, dbOk \in BOOLEAN :
    \/ \E kind \in {"likePost", "bookmarkPost"} :
         Issue(r, kind, "clerk_b", "p1")
    \/ \E kind \in {"likePost", "likeDelete", "bookmarkDelete"} :
         Issue(r, kind, "clerk_a", "p1")
    \/ LikePostStart(r, dbOk)
    \/ LikePostCheck(r, dbOk)
    \/ LikePostInsert(r, dbOk)
    \/ LikeDeleteStart(r, dbOk)
    \/ LikeDeleteRows(r, dbOk)
    \/ BookmarkPostStart(r, dbOk)
    \/ BookmarkPostCheck(r, dbOk)
    \/ BookmarkPostInsert(r, dbOk)
    \/ BookmarkDeleteStart(r, dbOk)
    \/ BookmarkDeleteRows(r, dbOk)
    \/ Finish(r)

SpecOwnRows == Init /\ [][NextOwnRows]_vars

(***************************************************************************)
(* C11.  A like or bookmark creation or removal request made by caller U   *)
(* inserts or deletes only rows whose user is U: no step of such a request *)
(* changes a like or bookmark row of another user, on any post; the only   *)
(* rows it can change are those of (its post, U).                          *)
(***************************************************************************)
C11_OnlyOwnRows ==
  [][\A r \in ReqIds :
       (reqs[r].kind \in RelationKinds /\ reqs'[r] # reqs[r])
         => \A k \in LikeKeys :
              (k[2] # CurrentUser(reqs[r].clerk) \/ k[1] # reqs[r].target)
                => likes'[k] = likes[k] /\ bookmarks'[k] = bookmarks[k]]_vars

\* user ua has removed a like and a bookmark from the post; the like and
\* the bookmark of user ub on that post are still there
C11_Witness ==
  /\ \E r \in ReqIds :
       /\ At(r, "likeDelete", "done") /\ reqs[r].status = 200
       /\ reqs[r].clerk = "clerk_a" /\ reqs[r].target = "p1"
  /\ \E r \in ReqIds :
       /\ At(r, "bookmarkDelete", "done") /\ reqs[r].status = 200
       /\ reqs[r].clerk = "clerk_a" /\ reqs[r].target = "p1"
  /\ likes[<<"p1", "ub">>] = 1 /\ bookmarks[<<"p1", "ub">>] = 1
  /\ likes[<<"p1", "ua">>] = 0

\* request r is a follow creation whose target is the caller's own user
SelfFollow(r) ==
  /\ reqs[r].kind = "followPost"
  /\ reqs[r].target = CurrentUser(reqs[r].clerk)

(***************************************************************************)
(* C12.  No sequence of follow requests creates a follow row whose         *)
(* follower equals its followee: a follow-creation request whose target is *)
(* the caller's own user never gets past the head of the handler, leaves   *)
(* the follows table as it is, and is answered 400 once the caller's users *)
(* row has been read (404 only when that lookup is not served).            *)
(***************************************************************************)
C12_NoSelfFollow ==
  /\ [](\A u \in UserIds : follows[<<u, u>>] = 0)
  /\ [][\A r \in ReqIds :
          (SelfFollow(r) /\ reqs'[r] # reqs[r])
            => /\ follows' = follows
               /\ reqs[r].pc \in {"sent", "done"}
               /\ FollowPostStart(r, TRUE) => reqs'[r].status = 400
               /\ reqs'[r].pc = "done" => reqs'[r].status \in {400, 404}]_vars

\* user ua has asked to follow ua and got 400, next to a follow of ub that
\* went through
C12_Witness ==
  /\ \E r \in ReqIds :
       /\ At(r, "followPost", "done") /\ reqs[r].status = 400
       /\ reqs[r].clerk = "clerk_a" /\ reqs[r].target = "ua"
  /\ follows[<<"ua", "ub">>] = 1
  /\ follows[<<"ua", "ua">>] = 0

(***************************************************************************)
(* Removal of relations: user ua removes likes and bookmarks that were     *)
(* never created, and follows and unfollows user ub.                       *)
(***************************************************************************)
NextRemove ==
  \E r \in ReqIds, dbOk \in BOOLEAN :
    \/ \E kind \in {"likeDelete", "bookmarkDelete"} :
         Issue(r, kind, "clerk_a", "p1")
    \/ \E kind \in {"followPost", "followDelete"} :
         Issue(r, kind, "clerk_a", "ub")
    \/ LikeDeleteStart(r, dbOk)
    \/ LikeDeleteRows(r, dbOk)
    \/ BookmarkDeleteStart(r, dbOk)
    \/ BookmarkDeleteRows(r, dbOk)
    \/ FollowPostStart(r, dbOk)
    \/ FollowPostCheck(r, dbOk)
    \/ FollowPostInsert(r, dbOk)
    \/ FollowDeleteStart(r, dbOk)
    \/ FollowDeleteCheck(r, dbOk)
    \/ FollowDeleteRows(r, dbOk)
    \/ Finish(r)

SpecRemove == Init /\ [][NextRemove]_vars

\* the relation that removal request r names has no row
RelationAbsent(r) ==
  LET u == CurrentUser(reqs[r].clerk) IN
  /\ u # None
  /\ \/ reqs[r].kind = "likeDelete" /\ likes[<<reqs[r].target, u>>] = 0
     \/ reqs[r].kind = "bookmarkDelete"
          /\ bookmarks[<<reqs[r].target, u>>] = 0
     \/ reqs[r].kind = "followDelete" /\ follows[<<u, reqs[r].target>>] = 0

(***************************************************************************)
(* C13.  Removing a relation that does not exist changes no row.  The      *)
(* delete statement of the like and of the bookmark DELETE endpoint, when  *)
(* the database serves it, answers 200 although it matches no row; the     *)
(* follow DELETE endpoint looks the row up first and answers 404 when it   *)
(* finds none.                                                             *)
(***************************************************************************)
C13_RemoveAbsentRelation ==
  [][\A r \in ReqIds :
       (RelationAbsent(r) /\ reqs'[r] # reqs[r])
         => /\ dbVars' = dbVars
            /\ (LikeDeleteRows(r, TRUE) \/ BookmarkDeleteRows(r, TRUE))
                 => reqs'[r].pc = "done" /\ reqs'[r].status = 200
            /\ At(r, "followDelete", "check")
                 => reqs'[r].pc = "done" /\ reqs'[r].status = 404]_vars

\* with no like and no follow row in the tables, the like removal has been
\* answered 200 and the unfollow 404
C13_Witness ==
  /\ \E r \in ReqIds :
       /\ At(r, "likeDelete", "done") /\ reqs[r].status = 200
  /\ \E r \in ReqIds :
       /\ At(r, "followDelete", "done") /\ reqs[r].status = 404
       /\ reqs[r].clerk = "clerk_a" /\ reqs[r].target = "ub"
  /\ \A k \in LikeKeys : likes[k] = 0
  /\ \A k \in FollowKeys : follows[k] = 0

(***************************************************************************)
(* C14.  In a post deletion by the owner, a failing removal of the image   *)
(* object does not block the deletion: whatever the removal did, the       *)
(* handler goes on to delete the post row; the delete, when the database   *)
(* serves it, removes the row and answers 200 although the object is       *)
(* still in the bucket; and a post deletion that has answered 200 has left *)
(* no row of its post.                                                     *)
(***************************************************************************)
C14_RemovalFailureDoesNotBlock ==
  /\ [](\A r \in ReqIds :
          (At(r, "postDelete", "done") /\ reqs[r].status = 200)
            => ~PostExists(reqs[r].target))
  /\ [][\A r \in ReqIds :
          (reqs[r].kind = "postDelete" /\ reqs'[r] # reqs[r])
            => /\ reqs[r].pc = "remove"
                    => reqs'[r].pc = "delete" /\ posts' = posts
               /\ (reqs[r].pc = "delete" /\ reqs[r].loc.path \in storage
                     /\ reqs'[r].status # 500)
                    => /\ reqs'[r].pc = "done" /\ reqs'[r].status = 200
                       /\ ~PostExists(reqs[r].target)'
                       /\ storage' = storage]_vars

\* the owner's deletion has answered 200 and the row is gone, while the
\* image is still in the bucket because its removal failed
C14_Witness ==
  /\ \E r \in ReqIds :
       /\ At(r, "postDelete", "done") /\ reqs[r].status = 200
       /\ reqs[r].clerk = "clerk_a" /\ reqs[r].target = "p1"
  /\ ~PostExists("p1")
  /\ SeedPath \in storage

(***************************************************************************)
(* Deletion of a post that others refer to: user ub likes, bookmarks and   *)
(* comments on the seeded post while its owner ua deletes it.              *)
(***************************************************************************)
NextCascade ==
  \E r \in ReqIds, ok \in BOOLEAN :
    \/ IssueForm(r, "commentPost", "clerk_b", "p1", ValidComment)
    \/ \E kind \in {"likePost", "bookmarkPost"} :
         Issue(r, kind, "clerk_b", "p1")
    \/ Issue(r, "postDelete", "clerk_a", "p1")
    \/ CommentPostStart(r, ok)
    \/ CommentPostInsert(r, ok)
    \/ LikePostStart(r, ok)
    \/ LikePostCheck(r, ok)
    \/ LikePostInsert(r, ok)
    \/ BookmarkPostStart(r, ok)
    \/ BookmarkPostCheck(r, ok)
    \/ BookmarkPostInsert(r, ok)
    \/ PostDeleteStart(r, ok)
    \/ PostDeleteFetch(r, ok)
    \/ PostDeleteRemove(r, ok)
    \/ PostDeleteRow(r, ok)
    \/ Finish(r)

SpecCascade == Init /\ [][NextCascade]_vars

\* no comment, like or bookmark row refers to post p
NoRowRefersTo(p) ==
  /\ \A u \in UserIds : likes[<<p, u>>] = 0 /\ bookmarks[<<p, u>>] = 0
  /\ \A c \in CommentIds : ~(comments[c].exists /\ comments[c].post_id = p)

(***************************************************************************)
(* C15.  After a post-deletion request has answered success, no comment,   *)
(* like or bookmark row referring to the deleted post remains, whatever    *)
(* requests for that post were and are in flight.                          *)
(***************************************************************************)
C15_NoRowOfDeletedPost ==
  \A r \in ReqIds :
    (At(r, "postDelete", "done") /\ reqs[r].status = 200)
      => ~PostExists(reqs[r].target) /\ NoRowRefersTo(reqs[r].target)

\* the deletion has answered 200 after a comment on the post had been
\* written, and that comment is gone
C15_Witness ==
  /\ \E r \in ReqIds :
       /\ At(r, "postDelete", "done") /\ reqs[r].status = 200
       /\ reqs[r].target = "p1"
  /\ nComments = 1
  /\ ~comments["c1"].exists

(***************************************************************************)
(* Validation of uploads: user ua posts images of the sizes around the     *)
(* limit and of allowed and other MIME types.                              *)
(***************************************************************************)
ImageTypes == {"image/jpeg", "image/jpg", "image/png", "image/webp",
               "image/gif", "image/bmp"}

\* the allowed types at the largest size, and an image that is too large,
\* one of another type, and one that is both
ImageForms ==
  {[NoForm EXCEPT !.hasImage = TRUE, !.size = MAX_FILE_SIZE, !.type = type,
                  !.ext = <<"jpg">>] : type \in ImageTypes}
  \cup {[NoForm EXCEPT !.hasImage = TRUE, !.size = MAX_FILE_SIZE + 1,
                       !.type = type, !.ext = <<"jpg">>] :
           type \in {"image/png", "image/bmp"}}

NextUpload ==
  \E r \in ReqIds, ok \in BOOLEAN :
    \/ \E form \in ImageForms :
         IssueForm(r, "postCreate", "clerk_a", None, form)
    \/ PostCreateStart(r, ok)
    \/ PostCreateUpload(r, ok)
    \/ PostCreateInsert(r, ok)
    \/ PostCreateRollback(r, ok)
    \/ Finish(r)

SpecUpload == InitPosts /\ [][NextUpload]_vars

\* request r is a post creation that the handler has not looked at yet
Unvalidated(r) == At(r, "postCreate", "sent") /\ reqs[r].form.hasImage

(***************************************************************************)
(* C16 as stated.  A post-creation request whose image is larger than 5 MB *)
(* or whose MIME type is not one of image/jpeg, image/png, image/webp and  *)
(* image/gif is answered 400 and writes nothing.  The handler's list also  *)
(* holds image/jpg, and TLC finds the request of that type that goes on to *)
(* the upload.                                                             *)
(***************************************************************************)
C16_Original_FourTypes ==
  [][\A r \in ReqIds :
       (/\ Unvalidated(r)
        /\ \/ reqs[r].form.size > MAX_FILE_SIZE
           \/ reqs[r].form.type \notin {"image/jpeg", "image/png",
                                        "image/webp", "image/gif"}
        /\ reqs'[r] # reqs[r])
         => /\ reqs'[r].pc = "done" /\ reqs'[r].status = 400
            /\ dbVars' = dbVars]_vars

(***************************************************************************)
(* C16 as amended.  A post-creation request whose image is larger than     *)
(* 5 MB or whose MIME type is not one of image/jpeg, image/jpg, image/png, *)
(* image/webp and image/gif is answered 400, and it writes no object to    *)
(* storage and inserts no post row; a request answered 400 has changed     *)
(* nothing.                                                                *)
(***************************************************************************)
C16_RejectedUploadWritesNothing ==
  [][\A r \in ReqIds :
       (/\ Unvalidated(r)
        /\ \/ reqs[r].form.size > MAX_FILE_SIZE
           \/ reqs[r].form.type \notin {"image/jpeg", "image/jpg",
                                        "image/png", "image/webp",
                                        "image/gif"}
        /\ reqs'[r] # reqs[r])
         => /\ reqs'[r].pc = "done" /\ reqs'[r].status = 400
            /\ dbVars' = dbVars]_vars

\* an image one byte over the limit and an image of a type that is not on
\* the list have both been refused, and the bucket and the table are empty
C16_Witness ==
  /\ \E r \in ReqIds :
       /\ At(r, "postCreate", "done") /\ reqs[r].status = 400
       /\ reqs[r].form.size = MAX_FILE_SIZE + 1
       /\ reqs[r].form.type = "image/png"
  /\ \E r \in ReqIds :
       /\ At(r, "postCreate", "done") /\ reqs[r].status = 400
       /\ reqs[r].form.size = MAX_FILE_SIZE
       /\ reqs[r].form.type = "image/bmp"
  /\ storage = {} /\ nPosts = 0 /\ nFiles = 0

(***************************************************************************)
(* Validation of comments: user ub comments on the seeded post with        *)
(* contents around the limits.                                             *)
(***************************************************************************)
\* a body without content; the empty string; white space only; 2200
\* characters; 2200 characters after one blank; 2201 characters
CommentForms ==
  {NoForm}
  \cup {[NoForm EXCEPT !.hasContent = TRUE, !.lead = lead, !.body = body] :
          lead \in {0, 1},
          body \in {0, MaxCommentLength}}
  \cup {[NoForm EXCEPT !.hasContent = TRUE, !.body = MaxCommentLength + 1]}

NextComment ==
  \E r \in ReqIds, ok \in BOOLEAN :
    \/ \E form \in CommentForms :
         IssueForm(r, "commentPost", "clerk_b", "p1", form)
    \/ CommentPostStart(r, ok)
    \/ CommentPostInsert(r, ok)
    \/ Finish(r)

SpecComment == Init /\ [][NextComment]_vars

(***************************************************************************)
(* C17 as stated.  A comment-creation request whose content has length 0   *)
(* after trimming, or is longer than 2200 characters, is answered 400 and  *)
(* inserts no comment row.  The handler measures the trimmed content, and  *)
(* TLC finds the content of 2201 characters, one of them a leading blank,  *)
(* that goes on to the insert.                                             *)
(***************************************************************************)
C17_Original_RawLength ==
  [][\A r \in ReqIds :
       (/\ At(r, "commentPost", "sent")
        /\ \/ reqs[r].form.body = 0
           \/ ContentLength(reqs[r].form) > MaxCommentLength
        /\ reqs'[r] # reqs[r])
         => /\ reqs'[r].pc = "done" /\ reqs'[r].status = 400
            /\ dbVars' = dbVars]_vars

(***************************************************************************)
(* C17 as amended.  A comment-creation request whose content, after        *)
(* trimming, has length 0 or is longer than 2200 characters is answered    *)
(* 400 and inserts no comment row.                                         *)
(***************************************************************************)
C17_RejectedCommentNotInserted ==
  [][\A r \in ReqIds :
       (/\ At(r, "commentPost", "sent")
        /\ \/ reqs[r].form.body = 0
           \/ reqs[r].form.body > MaxCommentLength
        /\ reqs'[r] # reqs[r])
         => /\ reqs'[r].pc = "done" /\ reqs'[r].status = 400
            /\ dbVars' = dbVars]_vars

\* a comment of white space only and one of 2201 characters have both been
\* refused, and no comment row was written
C17_Witness ==
  /\ \E r \in ReqIds :
       /\ At(r, "commentPost", "done") /\ reqs[r].status = 400
       /\ reqs[r].form.hasContent
       /\ reqs[r].form.lead = 1 /\ reqs[r].form.body = 0
  /\ \E r \in ReqIds :
       /\ At(r, "commentPost", "done") /\ reqs[r].status = 400
       /\ reqs[r].form.body = MaxCommentLength + 1
  /\ nComments = 0

(***************************************************************************)
(* The feed read page by page.  The feed starts with any number of posts   *)
(* up to MaxPosts, written in turn by ua and ub, and is read with the      *)
(* queries of FeedQueries, with and without the userId filter.             *)
(***************************************************************************)
\* the rows of a feed of n posts
SeededPosts(n) ==
  [p \in PostIds |->
     LET i == CHOOSE j \in 1..MaxPosts : PostName[j] = p IN
     IF i <= n
       THEN [exists |-> TRUE,
             user_id |-> IF i % 2 = 1 THEN "ua" ELSE "ub",
             image_url |-> PublicUrl(<<IF i % 2 = 1 THEN "clerk_a"
                                       ELSE "clerk_b", FileName[i], "jpg">>),
             caption |-> <<"a">>]
       ELSE NoPost]

InitFeed ==
  /\ NoRelations
  /\ \E n \in 0..MaxPosts :
       /\ posts = SeededPosts(n)
       /\ storage = {<<IF i % 2 = 1 THEN "clerk_a" ELSE "clerk_b",
                       FileName[i], "jpg">> : i \in 1..n}
       /\ nPosts = n /\ nFiles = n
       /\ older = 0
  /\ comments = [c \in CommentIds |-> NoComment]
  /\ nComments = 0
  /\ NoUi
  /\ reqs = [r \in ReqIds |-> IdleReq]

\* a query string: page and limit, each absent or a number
Query(hasPage, page, hasLimit, limit) ==
  [NoForm EXCEPT !.hasPage = hasPage, !.page = page,
                 !.hasLimit = hasLimit, !.limit = limit]

FeedQueries ==
  {Query(FALSE, 0, FALSE, 0), Query(TRUE, 1, TRUE, 1), Query(TRUE, 2, TRUE, 1),
   Query(TRUE, 2, TRUE, 2),
   Query(TRUE, 1, TRUE, MaxLimit), Query(TRUE, 2, TRUE, MaxLimit + 1),
   Query(TRUE, 0, TRUE, 1)}

NextFeed ==
  \E r \in ReqIds, ok \in BOOLEAN :
    \/ \E form \in FeedQueries, userId \in {None, "ub"} :
         /\ userId = None \/ (form.page = 1 /\ form.limit = 1)
         /\ IssueForm(r, "feedGet", None, userId, form)
    \/ FeedGetPage(r, ok)
    \/ FeedGetUsers(r, ok, UserIds)
    \/ FeedGetPreviews(r, {})
    \/ FeedGetViewer(r)
    \/ FeedGetCount(r, ok)
    \/ Finish(r)

SpecFeed == InitFeed /\ [][NextFeed]_vars

\* C18: a feed request with page p >= 1 and limit l in 1..50 whose page is not
\* empty is answered, once the count query is served, with
\* min(l, N - (p-1)*l) posts of the N matching ones, total N, and hasMore
\* exactly when (p-1)*l + l < N.
C18_PageOfFeed ==
  [][\A r \in ReqIds :
       FeedGetCount(r, TRUE) =>
         LET p == IF reqs[r].form.hasPage THEN reqs[r].form.page ELSE 1
             l == IF reqs[r].form.hasLimit THEN reqs[r].form.limit
                  ELSE DefaultLimit
             N == Cardinality({x \in PostIds :
                     /\ posts[x].exists
                     /\ reqs[r].target \in {None, posts[x].user_id}})
             rest == N - (p - 1) * l
         IN (p >= 1 /\ l \in 1..MaxLimit) =>
              /\ reqs'[r].status = 200
              /\ Len(reqs'[r].loc.rows) = (IF l < rest THEN l ELSE rest)
              /\ reqs'[r].loc.total = N
              /\ reqs'[r].loc.hasMore <=> ((p - 1) * l + l < N)]_vars

\* the second and last page of a feed of two posts read one post a page
C18_Witness ==
  \E r \in ReqIds :
    /\ reqs[r].kind = "feedGet" /\ reqs[r].pc = "done"
    /\ reqs[r].status = 200
    /\ reqs[r].form.hasPage /\ reqs[r].form.page = 2
    /\ reqs[r].form.hasLimit /\ reqs[r].form.limit = 1
    /\ Len(reqs[r].loc.rows) = 1
    /\ reqs[r].loc.total = 2 /\ ~reqs[r].loc.hasMore

\* C19: a feed request whose page holds no post, a page beyond the end of a
\* feed that holds posts included, is answered 200 with an empty post list,
\* total 0 and hasMore false when the page query is served.
C19_EmptyPage ==
  [][\A r \in ReqIds :
       FeedGetPage(r, TRUE) =>
         LET p == IF reqs[r].form.hasPage THEN reqs[r].form.page ELSE 1
             asked == IF reqs[r].form.hasLimit THEN reqs[r].form.limit
                      ELSE DefaultLimit
             l == IF asked < MaxLimit THEN asked ELSE MaxLimit
             N == Cardinality({x \in PostIds :
                     /\ posts[x].exists
                     /\ reqs[r].target \in {None, posts[x].user_id}})
         IN (p >= 1 /\ l >= 1 /\ N <= (p - 1) * l) =>
              /\ reqs'[r].pc = "done" /\ reqs'[r].status = 200
              /\ reqs'[r].loc.rows = <<>>
              /\ reqs'[r].loc.total = 0
              /\ ~reqs'[r].loc.hasMore]_vars

\* page 2 of a feed of posts that fit on page 1, answered with total 0
C19_Witness ==
  \E r \in ReqIds :
    /\ reqs[r].kind = "feedGet" /\ reqs[r].pc = "done"
    /\ reqs[r].status = 200
    /\ reqs[r].form.hasPage /\ reqs[r].form.page = 2
    /\ posts["p1"].exists
    /\ reqs[r].loc.rows = <<>>
    /\ reqs[r].loc.total = 0 /\ ~reqs[r].loc.hasMore

\* C20: every feed request whose page query is served is read with the
\* requested limit, 10 when absent, lowered to 50 when larger, and from the
\* offset (page - 1) * that limit, page being 1 when absent; the first row of
\* the page is the row at that offset of the newest-first ordering.
C20_LimitAndOffset ==
  [][\A r \in ReqIds, ok \in BOOLEAN :
       FeedGetPage(r, ok) =>
         LET p == IF reqs[r].form.hasPage THEN reqs[r].form.page ELSE 1
             asked == IF reqs[r].form.hasLimit THEN reqs[r].form.limit
                      ELSE DefaultLimit
             l == IF asked < MaxLimit THEN asked ELSE MaxLimit
         IN reqs'[r].status # 500 =>
              /\ reqs'[r].loc.limit = l
              /\ reqs'[r].loc.offset = (p - 1) * l
              /\ Len(reqs'[r].loc.rows) <= l
              /\ reqs'[r].loc.rows # <<>> =>
                   reqs'[r].loc.rows[1]
                     = FeedRows(reqs[r].target)[(p - 1) * l + 1]]_vars

\* a request for page 2 with limit 51 read from offset 50 with limit 50, and
\* a request for page 2 with limit 1 answered with the older of two posts
C20_Witness ==
  \E r, o \in ReqIds :
    /\ reqs[r].kind = "feedGet" /\ reqs[r].pc = "done"
    /\ reqs[r].form.hasLimit /\ reqs[r].form.limit = MaxLimit + 1
    /\ reqs[r].form.page = 2
    /\ reqs[r].loc.limit = MaxLimit /\ reqs[r].loc.offset = MaxLimit
    /\ reqs[o].kind = "feedGet" /\ reqs[o].pc = "done"
    /\ reqs[o].status = 200
    /\ reqs[o].form.page = 2 /\ reqs[o].form.limit = 1
    /\ posts["p2"].exists
    /\ reqs[o].loc.rows = <<"p1">>

(***************************************************************************)
(* The feed with comments.  Every comment id is taken: the comments are    *)
(* written in turn by ua and ub, every third one on p2 and the others on   *)
(* p1, so that p1 has more comments than a preview holds.  The feed is     *)
(* read without a session; the users table answers with all its rows or    *)
(* without the row of ub.                                                  *)
(***************************************************************************)
SeededComments ==
  [c \in CommentIds |->
     LET i == CHOOSE j \in 1..NumComments : CommentName[j] = c IN
     [exists |-> TRUE,
      post_id |-> IF i % 3 = 2 THEN "p2" ELSE "p1",
      user_id |-> IF i % 2 = 1 THEN "ua" ELSE "ub"]]

InitPreview ==
  /\ NoRelations
  /\ posts = SeededPosts(MaxPosts)
  /\ storage = {<<IF i % 2 = 1 THEN "clerk_a" ELSE "clerk_b",
                  FileName[i], "jpg">> : i \in 1..MaxPosts}
  /\ nPosts = MaxPosts /\ nFiles = MaxPosts
  /\ older = 0
  /\ comments = SeededComments
  /\ nComments = NumComments
  /\ NoUi
  /\ reqs = [r \in ReqIds |-> IdleReq]

NextPreview ==
  \E r \in ReqIds :
    \/ Issue(r, "feedGet", None, None)
    \/ FeedGetPage(r, TRUE)
    \/ \E found \in {UserIds, {"ua"}} : FeedGetUsers(r, TRUE, found)
    \/ \E failed \in {{}, {"p1"}} : FeedGetPreviews(r, failed)
    \/ \E found \in {UserIds, {"ua"}} : FeedGetCommentUsers(r, TRUE, found)
    \/ FeedGetViewer(r)
    \/ FeedGetCount(r, TRUE)
    \/ Finish(r)

SpecPreview == InitPreview /\ [][NextPreview]_vars

\* the place of a comment in the order of creation
CommentIndex(c) == CHOOSE i \in 1..NumComments : CommentName[i] = c

\* the comments of the post that are newer than the comment
NewerComments(p, c) ==
  {d \in CommentIds : /\ comments[d].exists /\ comments[d].post_id = p
                      /\ CommentIndex(d) > CommentIndex(c)}

\* C21: when the posts of a page are composed, the preview of every post holds
\* at most two comments, all of that post and among its two newest, and a
\* fetched comment whose author was not found is left out while the request
\* goes on to the count query.
C21_PreviewOfTwoNewest ==
  [][\A r \in ReqIds :
       (FeedGetViewer(r) /\ ~AuthorMissing(reqs[r].loc)) =>
         /\ reqs'[r].pc = "count"
         /\ Len(reqs'[r].loc.previews) = Len(reqs[r].loc.rows)
         /\ \A i \in 1..Len(reqs[r].loc.rows) :
              LET before == reqs[r].loc.previews[i]
                  after == reqs'[r].loc.previews[i]
              IN /\ Len(after) <= 2
                 /\ \A k \in 1..Len(after) :
                      /\ after[k].post_id = reqs[r].loc.rows[i]
                      /\ comments[after[k].id].post_id = reqs[r].loc.rows[i]
                      /\ Cardinality(NewerComments(reqs[r].loc.rows[i],
                                                   after[k].id)) < 2
                      /\ after[k].user_id \in reqs[r].loc.commenters
                 /\ \A k \in 1..Len(before) :
                      before[k].user_id \in reqs[r].loc.commenters
                        => \E j \in 1..Len(after) : after[j] = before[k]]_vars

\* a response whose preview of p1 holds the one of its two newest comments
\* whose author was found
C21_Witness ==
  \E r \in ReqIds :
    /\ reqs[r].kind = "feedGet" /\ reqs[r].pc = "done"
    /\ reqs[r].status = 200
    /\ \E i \in 1..Len(reqs[r].loc.rows) :
         /\ reqs[r].loc.rows[i] = "p1"
         /\ Len(reqs[r].loc.previews[i]) = 1
         /\ reqs[r].loc.previews[i][1].user_id = "ua"
         /\ Cardinality({c \in CommentIds : comments[c].post_id = "p1"}) > 2

\* C22: a comment query that fails for one post of the page does not end the
\* feed request: every post of the page stays, the failed post gets the empty
\* comment list and every other post the comments its own query returned.
C22_FailedCommentQueryDegrades ==
  [][\A r \in ReqIds, failed \in SUBSET PostIds :
       FeedGetPreviews(r, failed) =>
         /\ reqs'[r].pc \in {"commentUsers", "viewer"}
         /\ reqs'[r].status = 0
         /\ reqs'[r].loc.rows = reqs[r].loc.rows
         /\ Len(reqs'[r].loc.previews) = Len(reqs[r].loc.rows)
         /\ \A i \in 1..Len(reqs[r].loc.rows) :
              LET p == reqs[r].loc.rows[i]
                  ofPost == {c \in CommentIds : /\ comments[c].exists
                                                /\ comments[c].post_id = p}
              IN IF p \in failed THEN reqs'[r].loc.previews[i] = <<>>
                 ELSE {reqs'[r].loc.previews[i][k].id :
                         k \in 1..Len(reqs'[r].loc.previews[i])}
                        = {c \in ofPost :
                             Cardinality(NewerComments(p, c)) < 2}]_vars

\* a 200 response with both posts, no comment under p1, which has comments,
\* and comments of p2 under p2
C22_Witness ==
  \E r \in ReqIds :
    /\ reqs[r].kind = "feedGet" /\ reqs[r].pc = "done"
    /\ reqs[r].status = 200
    /\ \E c \in CommentIds : comments[c].exists /\ comments[c].post_id = "p1"
    /\ \E i, j \in 1..Len(reqs[r].loc.rows) :
         /\ reqs[r].loc.rows[i] = "p1" /\ reqs[r].loc.previews[i] = <<>>
         /\ reqs[r].loc.rows[j] = "p2"
         /\ reqs[r].loc.previews[j] # <<>>
         /\ reqs[r].loc.previews[j][1].post_id = "p2"

\* C29: a feed request that holds a post of the page whose author the users
\* query did not return never reaches the count query: it is answered 500
\* with no post, while a comment whose author is missing only leaves the
\* preview.
C29_MissingAuthorFailsRequest ==
  [][\A r \in ReqIds :
       (/\ reqs[r].kind = "feedGet"
        /\ reqs[r].pc \in {"previews", "commentUsers", "viewer",
                           "currentUser", "likes", "bookmarks"}
        /\ \E i \in 1..Len(reqs[r].loc.rows) :
             reqs[r].loc.stats[i].user_id \notin reqs[r].loc.authors
        /\ reqs'[r] # reqs[r]) =>
         /\ reqs'[r].pc # "count"
         /\ reqs'[r].pc = "done" =>
              /\ reqs'[r].status = 500
              /\ reqs'[r].loc.rows = <<>>
         /\ (FeedGetViewer(r) /\ reqs[r].clerk = None) =>
              reqs'[r].pc = "done"]_vars

\* the 500 of the catch block
C29_Witness ==
  \E r \in ReqIds :
    /\ reqs[r].kind = "feedGet" /\ reqs[r].pc = "done"
    /\ reqs[r].status = 500
    /\ reqs[r].loc.error = "Internal server error"
    /\ reqs[r].loc.rows = <<>>

(***************************************************************************)
(* The feed read by a viewer while likes change.  The feed holds p1, which *)
(* ua may like and the viewer ub has bookmarked; it is read by ub and      *)
(* without a session, while another tab of ub likes and unlikes p1.        *)
(***************************************************************************)
InitFlags ==
  /\ \E liked \in {0, 1} :
       likes = [k \in LikeKeys |-> IF k = <<"p1", "ua">> THEN liked ELSE 0]
  /\ bookmarks = [k \in LikeKeys |-> IF k = <<"p1", "ub">> THEN 1 ELSE 0]
  /\ follows = [k \in FollowKeys |-> 0]
  /\ posts = SeededPosts(1)
  /\ storage = {<<"clerk_a", FileName[1], "jpg">>}
  /\ nPosts = 1 /\ nFiles = 1
  /\ older = 0
  /\ comments = [c \in CommentIds |-> NoComment]
  /\ nComments = 0
  /\ NoUi
  /\ reqs = [r \in ReqIds |-> IdleReq]

NextFlags ==
  \E r \in ReqIds :
    \/ \E clerk \in {None, "clerk_b"} : Issue(r, "feedGet", clerk, None)
    \/ \E kind \in {"likePost", "likeDelete"} :
         Issue(r, kind, "clerk_b", "p1")
    \/ FeedGetPage(r, TRUE)
    \/ FeedGetUsers(r, TRUE, UserIds)
    \/ FeedGetPreviews(r, {})
    \/ FeedGetViewer(r)
    \/ FeedGetCurrentUser(r, TRUE)
    \/ FeedGetLikes(r, TRUE)
    \/ FeedGetBookmarks(r, TRUE)
    \/ FeedGetCount(r, TRUE)
    \/ LikePostStart(r, TRUE)
    \/ LikePostCheck(r, TRUE)
    \/ LikePostInsert(r, TRUE)
    \/ LikeDeleteStart(r, TRUE)
    \/ LikeDeleteRows(r, TRUE)
    \/ Finish(r)

SpecFlags == InitFlags /\ [][NextFlags]_vars

\* C23: the likes query, when served, gives user_liked to exactly the posts of
\* the page for which the viewer has a like row, the bookmarks query likewise
\* for user_bookmarked, the flags go unchanged into the response, and the
\* response to a viewer without a session has both flags false on every post.
C23_ViewerFlags ==
  [][\A r \in ReqIds :
       LET rows == {reqs[r].loc.rows[i] : i \in 1..Len(reqs[r].loc.rows)}
           me == CurrentUser(reqs[r].clerk)
       IN /\ FeedGetLikes(r, TRUE) =>
               reqs'[r].loc.userLikes = {p \in rows : likes[<<p, me>>] >= 1}
          /\ FeedGetBookmarks(r, TRUE) =>
               /\ reqs'[r].loc.userBookmarks
                    = {p \in rows : bookmarks[<<p, me>>] >= 1}
               /\ reqs'[r].loc.userLikes = reqs[r].loc.userLikes
          /\ FeedGetCount(r, TRUE) =>
               /\ reqs'[r].loc.userLikes = reqs[r].loc.userLikes
               /\ reqs'[r].loc.userBookmarks = reqs[r].loc.userBookmarks
               /\ reqs'[r].status = 200
          /\ (reqs'[r].kind = "feedGet" /\ reqs'[r].clerk = None) =>
               /\ reqs'[r].loc.userLikes = {}
               /\ reqs'[r].loc.userBookmarks = {}]_vars

\* a response to ub with p1 not liked though ua likes it, and bookmarked
C23_Witness ==
  \E r \in ReqIds :
    /\ reqs[r].kind = "feedGet" /\ reqs[r].pc = "done"
    /\ reqs[r].status = 200 /\ reqs[r].clerk = "clerk_b"
    /\ likes[<<"p1", "ua">>] = 1 /\ likes[<<"p1", "ub">>] = 0
    /\ reqs[r].loc.userLikes = {}
    /\ reqs[r].loc.userBookmarks = {"p1"}

\* C27: every post of a feed response that carries user_liked = true carries
\* likes_count >= 1.
C27_LikedImpliesCounted ==
  \A r \in ReqIds :
    (reqs[r].kind = "feedGet" /\ reqs[r].pc = "done"
     /\ reqs[r].status = 200) =>
      \A i \in 1..Len(reqs[r].loc.rows) :
        reqs[r].loc.rows[i] \in reqs[r].loc.userLikes
          => reqs[r].loc.stats[i].likes_count >= 1

(***************************************************************************)
(* The search page worked with blank and non-blank input, and callers that *)
(* send the search endpoint a blank q themselves while the page has no     *)
(* request in flight.                                                      *)
(***************************************************************************)
BlankQueries == {<<>>, <<" ">>}

NextBlank ==
  \/ \E value \in BlankQueries \cup {<<"a">>} : InputChange(value)
  \/ Tick
  \/ \E r \in ReqIds :
       \/ \E type \in SearchTypes : TypeChange(r, type)
       \/ TimerFires(r)
       \/ \E q \in BlankQueries :
            /\ \A o \in ReqIds : reqs[o].origin = "api"
            /\ IssueForm(r, "search", "clerk_a", None, [NoForm EXCEPT !.q = q])
       \/ \E dbOk \in BOOLEAN : SearchGet(r, dbOk, ~dbOk)
       \/ SearchResponse(r)
       \/ Finish(r)

SpecBlank == InitSearch /\ [][NextBlank]_vars

\* C24: the search page issues no request for an empty or white-space query
\* and empties its result lists when the input becomes one, and the search
\* endpoint answers a blank q with 200 and empty lists whatever the database
\* would do.
C24_BlankQueryStaysLocal ==
  [][/\ \A r \in ReqIds :
          /\ (reqs[r].pc = "idle" /\ reqs'[r].origin = "search") =>
               \E i \in 1..Len(reqs'[r].form.q) : reqs'[r].form.q[i] # " "
          /\ \A dbOk, thrown \in BOOLEAN :
               (/\ SearchGet(r, dbOk, thrown)
                /\ \A i \in 1..Len(reqs[r].form.q) : reqs[r].form.q[i] = " ")
                 => /\ reqs'[r].status = 200
                    /\ reqs'[r].loc.users = {} /\ reqs'[r].loc.posts = {}
      /\ \A value \in BlankQueries :
           InputChange(value) =>
             /\ reqs' = reqs
             /\ userResults' = {} /\ postResults' = {}
             /\ timers' \subseteq timers]_vars

\* the input emptied while results were shown, and a blank q answered by the
\* endpoint
C24_Witness ==
  /\ query = <<" ">>
  /\ searchQuery = <<"a">>
  /\ userResults = {} /\ postResults = {}
  /\ \E r \in ReqIds :
       /\ reqs[r].kind = "search" /\ reqs[r].origin = "api"
       /\ reqs[r].pc = "done" /\ reqs[r].status = 200

(***************************************************************************)
(* The like, bookmark and follow endpoints called without a session or     *)
(* without the target in the body, next to ua, who likes p1, so that there *)
(* is a row a refused request could remove.                                *)
(***************************************************************************)
EndpointKinds ==
  {"likePost", "likeDelete", "followPost", "followDelete", "bookmarkUpsert",
   "bookmarkUpsertDelete", "bookmarkPost", "bookmarkDelete"}

\* the post or the user that a request of the kind names in its body
TargetOf(kind) == IF kind \in {"followPost", "followDelete"} THEN "ub" ELSE "p1"

NextHeads ==
  \E r \in ReqIds :
    \/ \E kind \in EndpointKinds :
         \/ Issue(r, kind, None, TargetOf(kind))
         \/ Issue(r, kind, "clerk_a", None)
    \/ \E kind \in {"likePost", "followDelete"} : Issue(r, kind, None, None)
    \/ Issue(r, "likePost", "clerk_a", "p1")
    \/ LikePostStart(r, TRUE)
    \/ LikePostCheck(r, TRUE)
    \/ LikePostInsert(r, TRUE)
    \/ LikeDeleteStart(r, TRUE)
    \/ FollowPostStart(r, TRUE)
    \/ FollowDeleteStart(r, TRUE)
    \/ BookmarkUpsertStart(r, TRUE)
    \/ BookmarkUpsertDeleteStart(r, TRUE)
    \/ BookmarkPostStart(r, TRUE)
    \/ BookmarkDeleteStart(r, TRUE)
    \/ Finish(r)

SpecHeads == Init /\ [][NextHeads]_vars

\* C25: a POST or DELETE to the like, bookmark or follow endpoint without a
\* session is answered 401, one with a session and without the target in
\* its body 400, and neither creates nor removes a row.
C25_RefusedBeforeAnyRow ==
  [][\A r \in ReqIds :
       (/\ reqs[r].kind \in EndpointKinds
        /\ reqs[r].clerk = None \/ reqs[r].target = None
        /\ reqs[r].pc # "done"
        /\ reqs'[r] # reqs[r]) =>
         /\ reqs'[r].pc = "done"
         /\ reqs'[r].status = IF reqs[r].clerk = None THEN 401 ELSE 400
         /\ likes' = likes /\ bookmarks' = bookmarks
         /\ follows' = follows]_vars

\* a DELETE of the like of p1 without a session answered 401 with the like
\* of ua still there
C25_Witness ==
  \E r \in ReqIds :
    /\ reqs[r].kind = "likeDelete" /\ reqs[r].pc = "done"
    /\ reqs[r].clerk = None /\ reqs[r].target = "p1"
    /\ reqs[r].status = 401
    /\ likes[<<"p1", "ua">>] = 1

\* C26: when a post-deletion request has ended with 401, 403, 404 or 500,
\* every post row that exists has its image object in storage.
C26_ErrorLeavesPostWhole ==
  \A r \in ReqIds :
    (/\ reqs[r].kind = "postDelete" /\ reqs[r].pc = "done"
     /\ reqs[r].status \in {401, 403, 404, 500}) =>
      \A p \in PostIds :
        posts[p].exists => StoragePathOf(posts[p].image_url) \in storage

(***************************************************************************)
(* The home feed: a posts table of one row more than a page, a visitor     *)
(* who opens the home page and scrolls, and a user who publishes posts     *)
(* in the meantime.                                                        *)
(***************************************************************************)
InitScroll ==
  /\ NoRelations
  /\ posts = [p \in PostIds |-> NoPost]
  /\ comments = [c \in CommentIds |-> NoComment]
  /\ storage = {}
  /\ nPosts = 0 /\ nComments = 0 /\ nFiles = 0
  /\ older = FeedPageSize + 1
  /\ view = "home"
  /\ isLiked = FALSE /\ likesCount = 0 /\ isLoading = FALSE
  /\ isBookmarked = FALSE /\ isBookmarkLoading = FALSE
  /\ isFollowing = FALSE /\ followersCount = 0 /\ headerLoading = FALSE
  /\ isFollowedByViewer = FALSE
  /\ NoSearch
  /\ NoFeed
  /\ NoTime
  /\ reqs = [r \in ReqIds |-> IdleReq]

NextScroll ==
  \E r \in ReqIds :
    \/ HomeLoad(r)
    \/ HomeRender(r)
    \/ LoadMore(r)
    \/ LoadMoreResponse(r)
    \/ FetchRejects(r)
    \/ FeedGetPage(r, TRUE)
    \/ FeedGetUsers(r, TRUE, UserIds)
    \/ FeedGetPreviews(r, {})
    \/ FeedGetViewer(r)
    \/ FeedGetCurrentUser(r, TRUE)
    \/ FeedGetLikes(r, TRUE)
    \/ FeedGetBookmarks(r, TRUE)
    \/ FeedGetCount(r, TRUE)
    \/ IssueForm(r, "postCreate", "clerk_b", None, ValidImage)
    \/ PostCreateStart(r, TRUE)
    \/ PostCreateUpload(r, TRUE)
    \/ PostCreateInsert(r, TRUE)
    \/ Finish(r)

SpecScroll == InitScroll /\ [][NextScroll]_vars

\* C28: in one session of the home feed no post is in the displayed list
\* twice, and the pages are asked for one at a time and in increasing
\* order: at most one request of the component is in flight, and it asks
\* for the page after the last one appended, whatever is published in
\* between.
C28_NoPostTwice ==
  /\ \A i, j \in 1..Len(feedPosts) : feedPosts[i] = feedPosts[j] => i = j
  /\ \A r, o \in ReqIds :
       reqs[r].origin = "feed" /\ reqs[o].origin = "feed" => r = o
  /\ \A r \in ReqIds :
       reqs[r].origin = "feed" /\ reqs[r].pc = "sent"
         => reqs[r].form.page = feedPage + 1

(***************************************************************************)
(* The labels of elapsed times: a row that is some days and some seconds   *)
(* old when its card is rendered.                                          *)
(***************************************************************************)
MaxDays == 366

\* the seconds past the whole days: around the minute, the hour and the day
SecondsOfDay == {0, 59, 60, 3599, 3600, 86399}

ElapsedTimes == {d * 86400 + s : d \in 0..MaxDays, s \in SecondsOfDay}

InitTime ==
  /\ NoRelations
  /\ posts = [p \in PostIds |-> NoPost]
  /\ comments = [c \in CommentIds |-> NoComment]
  /\ storage = {}
  /\ nPosts = 0 /\ nComments = 0 /\ nFiles = 0
  /\ older = 0
  /\ view = "none"
  /\ isLiked = FALSE /\ likesCount = 0 /\ isLoading = FALSE
  /\ isBookmarked = FALSE /\ isBookmarkLoading = FALSE
  /\ isFollowing = FALSE /\ followersCount = 0 /\ headerLoading = FALSE
  /\ isFollowedByViewer = FALSE
  /\ NoSearch
  /\ feedPosts = <<>> /\ feedPage = 0 /\ feedLoading = FALSE
  /\ feedHasMore = FALSE /\ feedError = FALSE
  /\ diffInSeconds \in ElapsedTimes
  /\ relativeTime = NoLabel
  /\ reqs = [r \in ReqIds |-> IdleReq]

NextTime == RenderTime

SpecTime == InitTime /\ [][NextTime]_vars

\* C30: the label of an elapsed time of 60 seconds or more carries a number
\* that is at least 1; no label reads 0 months or 0 years.
C30_NoZeroCount ==
  relativeTime # NoLabel /\ diffInSeconds >= 60 => relativeTime.n >= 1

====
